---------------------------- MODULE Spec2Model ----------------------------
(***************************************************************************)
(* Resource Traversal MCP server: the tool-call handler (index.ts), the    *)
(* browser session pipeline (lib/browser.ts) and the service detection and *)
(* content extractors (lib/extractors.ts).                                 *)
(*                                                                         *)
(* Strings are sequences.  URLs are split at every "/" (each "/" is a      *)
(* token of its own), so that a string prefix ending in "/" is a token     *)
(* prefix.  Error messages and page texts are sequences of characters, so  *)
(* that String.includes is a real substring search.                        *)
(***************************************************************************)
EXTENDS Integers, Sequences, FiniteSets, TLC

NULL == "null"

(***************************************************************************)
(* String helpers (String.prototype.includes / startsWith / trim / join).  *)
(***************************************************************************)
IsPrefix(p, s) ==
    /\ Len(p) <= Len(s)
    /\ \A i \in 1..Len(p) : s[i] = p[i]

Includes(s, needle) ==
    \E k \in 0..(Len(s) - Len(needle)) :
        \A i \in 1..Len(needle) : s[k + i] = needle[i]

Substring(s, n) == IF Len(s) <= n THEN s ELSE SubSeq(s, 1, n)

WhiteSpace == {" ", "\n"}

RECURSIVE TrimLeft(_)
TrimLeft(s) ==
    IF s # <<>> /\ Head(s) \in WhiteSpace THEN TrimLeft(Tail(s)) ELSE s

RECURSIVE TrimRight(_)
TrimRight(s) ==
    IF s # <<>> /\ s[Len(s)] \in WhiteSpace
    THEN TrimRight(SubSeq(s, 1, Len(s) - 1)) ELSE s

Trim(s) == TrimRight(TrimLeft(s))

RECURSIVE Join(_, _)
Join(parts, sep) ==
    IF parts = <<>> THEN <<>>
    ELSE IF Len(parts) = 1 THEN parts[1]
    ELSE parts[1] \o sep \o Join(Tail(parts), sep)

(***************************************************************************)
(* lib/extractors.ts: SERVICE_PATTERNS, detectService, getExtractor.       *)
(***************************************************************************)
Https(host, path) == <<"https:", "/", "/", host, "/">> \o path

ServiceOrder ==
    <<"gemini", "googleDocs", "notebookLM", "chatgpt",
      "grok", "discord", "slack", "raindrop">>

SERVICE_PATTERNS ==
    [gemini     |-> Https("gemini.google.com", <<"app", "/">>),
     googleDocs |-> Https("docs.google.com", <<"document", "/">>),
     notebookLM |-> Https("notebooklm.google.com", <<>>),
     chatgpt    |-> Https("chatgpt.com", <<"c", "/">>),
     grok       |-> Https("grok.com", <<"c", "/">>),
     discord    |-> Https("discord.com", <<"channels", "/">>),
     slack      |-> Https("app.slack.com", <<"client", "/">>),
     raindrop   |-> Https("app.raindrop.io", <<"my", "/">>)]

Services == {ServiceOrder[i] : i \in 1..Len(ServiceOrder)}

\* A plausible slip: the pattern loses its ^ anchor.
PatternTestUnanchored(service, url) ==
    Includes(url, SERVICE_PATTERNS[service])

\* pattern.test(url) for an anchored (^) literal pattern
PatternTest(service, url) == IsPrefix(SERVICE_PATTERNS[service], url)

MinOf(S) == CHOOSE x \in S : \A y \in S : x <= y
MaxOf(S) == CHOOSE x \in S : \A y \in S : x >= y

detectService(url) ==
    LET hits == {i \in 1..Len(ServiceOrder) : PatternTest(ServiceOrder[i], url)}
    IN  IF hits = {} THEN NULL ELSE ServiceOrder[MinOf(hits)]

\* A plausible slip: two switch arms return each other's extractor.
getExtractorSwapped(url) ==
    LET service == detectService(url)
    IN  CASE service = "gemini"     -> "extractGeminiChat"
          [] service = "googleDocs" -> "extractGoogleDoc"
          [] service = "notebookLM" -> "extractNotebookLM"
          [] service = "chatgpt"    -> "extractChatGPT"
          [] service = "grok"       -> "extractGrok"
          [] service = "discord"    -> "extractSlack"
          [] service = "slack"      -> "extractDiscord"
          [] service = "raindrop"   -> "extractRaindrop"
          [] OTHER                  -> "extractGeneric"

getExtractor(url) ==
    LET service == detectService(url)
    IN  CASE service = "gemini"     -> "extractGeminiChat"
          [] service = "googleDocs" -> "extractGoogleDoc"
          [] service = "notebookLM" -> "extractNotebookLM"
          [] service = "chatgpt"    -> "extractChatGPT"
          [] service = "grok"       -> "extractGrok"
          [] service = "discord"    -> "extractDiscord"
          [] service = "slack"      -> "extractSlack"
          [] service = "raindrop"   -> "extractRaindrop"
          [] OTHER                  -> "extractGeneric"

Extractors ==
    {"extractGeminiChat", "extractGoogleDoc", "extractNotebookLM",
     "extractChatGPT", "extractGrok", "extractDiscord", "extractSlack",
     "extractRaindrop", "extractGeneric"}

(***************************************************************************)
(* URLs handed to the tools.                                               *)
(***************************************************************************)
UrlEmpty         == <<>>
UrlGemini        == Https("gemini.google.com", <<"app", "/", "abc123">>)
UrlDocs          == Https("docs.google.com", <<"document", "/", "d1">>)
UrlNotebook      == Https("notebooklm.google.com", <<"notebook", "/", "n1">>)
UrlChatGPT       == Https("chatgpt.com", <<"c", "/", "x1">>)
UrlGrok          == Https("grok.com", <<"c", "/", "x1">>)
UrlDiscord       == Https("discord.com", <<"channels", "/", "1">>)
UrlSlack         == Https("app.slack.com", <<"client", "/", "T1">>)
UrlRaindrop      == Https("app.raindrop.io", <<"my", "/", "0">>)
UrlExample       == Https("example.com", <<"page">>)
UrlHttpGemini    == <<"http:", "/", "/", "gemini.google.com", "/", "app", "/", "abc123">>
UrlGeminiNoSlash == Https("gemini.google.com", <<"app">>)
UrlNotebookBare  == <<"https:", "/", "/", "notebooklm.google.com">>
UrlChatGPTRoot   == Https("chatgpt.com", <<>>)
UrlEmbedded      == Https("example.com", <<"r", "/">>) \o UrlGrok

ServiceUrls ==
    {UrlGemini, UrlDocs, UrlNotebook, UrlChatGPT, UrlGrok, UrlDiscord,
     UrlSlack, UrlRaindrop}

OtherUrls ==
    {UrlExample, UrlHttpGemini, UrlGeminiNoSlash, UrlNotebookBare,
     UrlChatGPTRoot, UrlEmbedded}

Urls == ServiceUrls \cup OtherUrls \cup {UrlEmpty}

(***************************************************************************)
(* The rendered document.  A page is a record                              *)
(*   title  : the document title                                           *)
(*   sigs   : the obstruction phrases that occur in page.content()         *)
(*   link   : whether page.$ finds the "use the browser" link              *)
(*   frames : for each frame, whether frame.$ finds the accept button      *)
(*   nodes  : the elements under <body> in document order; each node names *)
(*            its tag, its classes/attributes, its own text, its parent    *)
(*            (0 = body) and, for <a>, its href.                           *)
(***************************************************************************)
N(tag, cls, text, parent) ==
    [tag |-> tag, cls |-> cls, text |-> text, parent |-> parent, href |-> <<>>]

A(href, text, parent) ==
    [tag |-> "a", cls |-> {}, text |-> text, parent |-> parent, href |-> href]

Sel(tags, classes) == [tags |-> tags, classes |-> classes]

NodeMatches(node, sel) ==
    node.tag \in sel.tags \/ node.cls \cap sel.classes # {}

RECURSIVE Ancestors(_, _)
Ancestors(page, i) ==
    LET p == page.nodes[i].parent
    IN  IF p = 0 THEN {} ELSE {p} \cup Ancestors(page, p)

\* element.querySelectorAll(sel) in document order; root 0 is the document
QueryAll(page, root, sel) ==
    SelectSeq([i \in 1..Len(page.nodes) |-> i],
              LAMBDA i : /\ (root = 0 \/ root \in Ancestors(page, i))
                         /\ NodeMatches(page.nodes[i], sel))

\* element.querySelector(sel); 0 stands for null
QueryFirst(page, root, sel) ==
    LET all == QueryAll(page, root, sel)
    IN  IF all = <<>> THEN 0 ELSE Head(all)

\* element.closest(sel); 0 stands for null
Closest(page, i, sel) ==
    LET c == {j \in {i} \cup Ancestors(page, i) : NodeMatches(page.nodes[j], sel)}
    IN  IF c = {} THEN 0 ELSE MaxOf(c)

\* the nodes that querySelectorAll(sel).forEach(el => el.remove()) detaches
RemovedBy(page, sel) ==
    {i \in 1..Len(page.nodes) :
        \E j \in {i} \cup Ancestors(page, i) : NodeMatches(page.nodes[j], sel)}

\* clone.querySelectorAll(sel).forEach(el => el.remove()) on a clone of root
RemovedWithin(page, root, sel) ==
    {i \in 1..Len(page.nodes) :
        \E j \in {i} \cup Ancestors(page, i) :
            /\ root = 0 \/ root \in Ancestors(page, j)
            /\ NodeMatches(page.nodes[j], sel)}

HiddenTags == {"script", "style", "noscript"}

RECURSIVE TextFrom(_, _, _, _, _)
TextFrom(page, root, removed, rendered, i) ==
    IF i > Len(page.nodes) THEN <<>>
    ELSE LET node == page.nodes[i]
             hiddenHere == \E j \in {i} \cup Ancestors(page, i) :
                               page.nodes[j].tag \in HiddenTags
             inside == root = 0 \/ i = root \/ root \in Ancestors(page, i)
             own == IF inside /\ i \notin removed /\ ~(rendered /\ hiddenHere)
                    THEN node.text ELSE <<>>
         IN  own \o TextFrom(page, root, removed, rendered, i + 1)

\* HTMLElement.innerText of a rendered element: display:none content is left out
InnerText(page, root, removed) == TextFrom(page, root, removed, TRUE, 1)

\* innerText of a detached clone, which is not rendered: all text content
DetachedText(page, root, removed) == TextFrom(page, root, removed, FALSE, 1)

\* class names of the modelled pages that contain the given substring
ClsHasMessage     == {"message", "message-1", "messageContent-1",
                      "c-message_kit__message", "c-message--light"}
ClsHasMessageDash == {"message-1"}
ClsHasMsgContent  == {"messageContent-1"}
ClsHasUsername    == {"username-1"}
ClsHasUser        == {"user", "username-1"}
ClsHasTitleDash   == {"title-1"}

You == <<"Y", "o", "u">>

(***************************************************************************)
(* lib/extractors.ts: extractGeneric and the raw read of fetchAuthenticated*)
(***************************************************************************)
MainLandmark(page, removed, sel) ==
    LET all == SelectSeq(QueryAll(page, 0, sel), LAMBDA i : i \notin removed)
    IN  IF all = <<>> THEN 0 ELSE Head(all)

\* A plausible slip: the generic extractor forgets to strip the page chrome.
extractGenericNoStrip(page) ==
    InnerText(page, MainLandmark(page, {}, Sel({"main", "article"}, {"role=main"})), {})

extractGeneric(page) ==
    LET removed == RemovedBy(page, Sel({"script", "style", "noscript",
                                        "nav", "header", "footer"}, {}))
        main == MainLandmark(page, removed, Sel({"main", "article"}, {"role=main"}))
    IN  InnerText(page, main, removed)

\* page.evaluate of fetchAuthenticated: the whole body text
RawBodyText(page) ==
    InnerText(page, 0, RemovedBy(page, Sel({"script", "style", "noscript"}, {})))

(***************************************************************************)
(* lib/extractors.ts: the structured read of each specific extractor (the  *)
(* array its page.evaluate returns) and the text it returns when that      *)
(* array is empty.                                                         *)
(***************************************************************************)
\* results of a forEach whose body pushes at most one fragment per element
Collected(pushes) == Join(pushes, <<>>)

MainOrBody(page) == QueryFirst(page, 0, Sel({"main"}, {}))

SepRule  == <<"\n\n---\n\n">>
SepBlank == <<"\n\n">>
SepLine  == <<"\n">>

\* ---- extractGeminiChat
GeminiFrag(page, el) ==
    LET text   == Trim(InnerText(page, el, {}))
        isUser == Closest(page, el, Sel({}, {"data-speaker=user"})) # 0
    IN  IF text = <<>> THEN <<>>
        ELSE << <<IF isUser THEN "**User:**" ELSE "**Gemini:**", "\n">> \o text >>

GeminiMessages(page) ==
    LET els == QueryAll(page, 0, Sel({}, {"data-message-id"}))
    IN  Collected([k \in 1..Len(els) |-> GeminiFrag(page, els[k])])

GeminiFallback(page) == InnerText(page, MainOrBody(page), {})

\* ---- extractNotebookLM
NotebookFrag(page, turn) ==
    LET text   == Trim(InnerText(page, turn, {}))
        isUser == \/ Includes(DetachedText(page, turn, {}), You)
                  \/ Closest(page, turn, Sel({}, ClsHasUser)) # 0
    IN  IF text = <<>> THEN <<>>
        ELSE << <<IF isUser THEN "**User:**" ELSE "**NotebookLM:**", "\n">> \o text >>

NotebookMessages(page) ==
    LET els == QueryAll(page, 0,
                   Sel({}, {"chat-turn", "source-card"} \cup ClsHasMessage))
    IN  Collected([k \in 1..Len(els) |-> NotebookFrag(page, els[k])])

NotebookFallback(page) ==
    LET main == MainOrBody(page)
    IN  DetachedText(page, main,
            RemovedWithin(page, main, Sel({"nav", "header", "button"},
                                          {"role=navigation"})))

\* ---- extractChatGPT
ChatGPTFrag(page, turn) ==
    LET isUser    == QueryFirst(page, turn, Sel({}, {"user-message"})) # 0
        contentEl == QueryFirst(page, turn,
                         Sel({}, {"markdown", "prose", "data-message-author-role"}))
        text      == Trim(InnerText(page, contentEl, {}))
    IN  IF contentEl = 0 \/ text = <<>> THEN <<>>
        ELSE << <<IF isUser THEN "**User:**" ELSE "**ChatGPT:**", "\n">> \o text >>

ChatGPTMessages(page) ==
    LET els == QueryAll(page, 0, Sel({}, {"conversation-turn"}))
    IN  Collected([k \in 1..Len(els) |-> ChatGPTFrag(page, els[k])])

\* ---- extractDiscord
DiscordFrag(page, el) ==
    LET container == Closest(page, el, Sel({}, ClsHasMessageDash))
        authorEl  == QueryFirst(page, container, Sel({}, ClsHasUsername))
        author    == IF authorEl # 0 THEN InnerText(page, authorEl, {})
                     ELSE <<"Unknown">>
        content   == InnerText(page, el, {})
    IN  IF container = 0 \/ content = <<>> THEN <<>>
        ELSE << <<"**">> \o author \o <<"**: ">> \o content >>

DiscordMessages(page) ==
    LET els == QueryAll(page, 0, Sel({}, ClsHasMsgContent))
    IN  Collected([k \in 1..Len(els) |-> DiscordFrag(page, els[k])])

\* ---- extractRaindrop
RaindropFrag(page, item) ==
    LET titleEl == QueryFirst(page, item, Sel({}, {"title"} \cup ClsHasTitleDash))
        linkEl  == QueryFirst(page, item, Sel({"a"}, {}))
        title   == IF titleEl # 0 THEN InnerText(page, titleEl, {}) ELSE <<"Untitled">>
        url     == IF linkEl # 0 THEN page.nodes[linkEl].href ELSE <<"No URL">>
    IN  IF title = <<>> \/ url = <<>> THEN <<>>
        ELSE << <<"- [">> \o title \o <<"](">> \o url \o <<")">> >>

RaindropBookmarks(page) ==
    LET els == QueryAll(page, 0, Sel({}, {"bookmark"}))
    IN  Collected([k \in 1..Len(els) |-> RaindropFrag(page, els[k])])

\* ---- extractGrok
GrokMinLength  == 5
DedupPrefixLen == 50

\* A plausible slip: the duplicate test compares whole fragments for equality.
AlreadyCapturedExact(results, text) ==
    \E k \in 1..Len(results) : results[k] = text

\* results.some(r => r.includes(text.substring(0, 50)))
AlreadyCaptured(results, text) ==
    \E k \in 1..Len(results) : Includes(results[k], Substring(text, DedupPrefixLen))

\* the fragment pushed for a Grok message, character by character
GrokFrag(isUser, text) ==
    (IF isUser THEN <<"*","*","U","s","e","r",":","*","*">>
               ELSE <<"*","*","G","r","o","k",":","*","*">>) \o <<"\n">> \o text

\* the fragment pushed for a Slack message: **author** [time]: content
SlackFrag(author, time, content) ==
    <<"*","*">> \o author \o <<"*","*"," ","[">> \o time
        \o <<"]",":"," ">> \o content

RECURSIVE GrokCollect(_, _, _)
GrokCollect(page, els, results) ==
    IF els = <<>> THEN results
    ELSE LET el        == Head(els)
             text      == Trim(InnerText(page, el, {}))
             container == Closest(page, el, Sel({}, ClsHasMessage))
             isUser    == \/ container # 0 /\ Includes(InnerText(page, container, {}), You)
                          \/ Includes(InnerText(page, page.nodes[el].parent, {}), You)
             frag      == GrokFrag(isUser, text)
             keep      == /\ text # <<>>
                          /\ Len(text) > GrokMinLength
                          /\ ~AlreadyCaptured(results, text)
         IN  GrokCollect(page, Tail(els),
                         IF keep THEN Append(results, frag) ELSE results)

GrokMessages(page) ==
    GrokCollect(page,
        QueryAll(page, 0, Sel({}, {"prose", "message-container"} \cup ClsHasMessage)),
        <<>>)

GrokFallback(page) == InnerText(page, MainOrBody(page), {})

\* ---- extractSlack
RECURSIVE SlackCollect(_, _, _)
SlackCollect(page, els, results) ==
    IF els = <<>> THEN results
    ELSE LET el       == Head(els)
             authorEl == QueryFirst(page, el,
                            Sel({}, {"c-message__sender_button",
                                     "data-qa=message_sender_name",
                                     "c-message__sender"}))
             bodyEl   == QueryFirst(page, el,
                            Sel({}, {"c-message_kit__blocks", "c-message__body",
                                     "c-message__content-body"}))
             timeEl   == QueryFirst(page, el,
                            Sel({}, {"c-timestamp__label", "c-timestamp"}))
             author   == Trim(InnerText(page, authorEl, {}))
             content  == Trim(InnerText(page, bodyEl, {}))
             time     == IF timeEl # 0 THEN Trim(InnerText(page, timeEl, {})) ELSE <<>>
             keep     == /\ authorEl # 0
                         /\ bodyEl # 0
                         /\ content # <<>>
                         /\ ~AlreadyCaptured(results, content)
             frag     == SlackFrag(author, time, content)
         IN  SlackCollect(page, Tail(els),
                          IF keep THEN Append(results, frag) ELSE results)

SlackMessages(page) ==
    SlackCollect(page,
        QueryAll(page, 0, Sel({}, {"c-message_kit__message", "c-message--light",
                                   "role=listitem"})),
        <<>>)

\* ---- the duplicate test of extractGrok and extractSlack, decision by
\* decision: for each candidate its text, the fragment it would push, the
\* results kept so far and whether it was dropped.
RECURSIVE GrokCandidates(_, _)
GrokCandidates(page, els) ==
    IF els = <<>> THEN <<>>
    ELSE LET el        == Head(els)
             text      == Trim(InnerText(page, el, {}))
             container == Closest(page, el, Sel({}, ClsHasMessage))
             isUser    == \/ container # 0 /\ Includes(InnerText(page, container, {}), You)
                          \/ Includes(InnerText(page, page.nodes[el].parent, {}), You)
         IN  (IF text # <<>> /\ Len(text) > GrokMinLength
              THEN << [text |-> text, frag |-> GrokFrag(isUser, text)] >>
              ELSE <<>>) \o GrokCandidates(page, Tail(els))

RECURSIVE SlackCandidates(_, _)
SlackCandidates(page, els) ==
    IF els = <<>> THEN <<>>
    ELSE LET el       == Head(els)
             authorEl == QueryFirst(page, el,
                            Sel({}, {"c-message__sender_button",
                                     "data-qa=message_sender_name",
                                     "c-message__sender"}))
             bodyEl   == QueryFirst(page, el,
                            Sel({}, {"c-message_kit__blocks", "c-message__body",
                                     "c-message__content-body"}))
             timeEl   == QueryFirst(page, el,
                            Sel({}, {"c-timestamp__label", "c-timestamp"}))
             author   == Trim(InnerText(page, authorEl, {}))
             content  == Trim(InnerText(page, bodyEl, {}))
             time     == IF timeEl # 0 THEN Trim(InnerText(page, timeEl, {})) ELSE <<>>
         IN  (IF authorEl # 0 /\ bodyEl # 0 /\ content # <<>>
              THEN << [text |-> content, frag |-> SlackFrag(author, time, content)] >>
              ELSE <<>>) \o SlackCandidates(page, Tail(els))

Candidates(name, page) ==
    CASE name = "extractGrok" ->
           GrokCandidates(page,
               QueryAll(page, 0, Sel({}, {"prose", "message-container"}
                                         \cup ClsHasMessage)))
      [] name = "extractSlack" ->
           SlackCandidates(page,
               QueryAll(page, 0, Sel({}, {"c-message_kit__message",
                                          "c-message--light", "role=listitem"})))
      [] OTHER -> <<>>

\* if (!results.some(r => r.includes(text.substring(0, 50)))) results.push(frag)
RECURSIVE Dedup(_, _)
Dedup(cands, results) ==
    IF cands = <<>> THEN <<>>
    ELSE LET cand    == Head(cands)
             dropped == AlreadyCaptured(results, cand.text)
         IN  << [text |-> cand.text, frag |-> cand.frag,
                 before |-> results, dropped |-> dropped] >>
             \o Dedup(Tail(cands),
                      IF dropped THEN results ELSE Append(results, cand.frag))

\* ---- extractGoogleDoc
MinDocLength == 50

GoogleDocContent(page) ==
    LET editor == QueryFirst(page, 0, Sel({}, {"kix-appview-editor"}))
        lines  == QueryAll(page, 0, Sel({}, {"kix-lineview"}))
    IN  IF editor # 0
        THEN DetachedText(page, editor,
                 RemovedWithin(page, editor,
                     Sel({"script", "style"}, {"kix-cursor", "kix-selection-overlay"})))
        ELSE IF lines # <<>>
        THEN Join([k \in 1..Len(lines) |-> InnerText(page, lines[k], {})], SepLine)
        ELSE <<>>

\* the content is kept only if (!content || content.trim().length < 50) is false
GoogleDocKept(page) ==
    LET content == GoogleDocContent(page)
    IN  IF content = <<>> \/ Len(Trim(content)) < MinDocLength
        THEN <<>> ELSE <<content>>

(***************************************************************************)
(* The extractors by name: the fragments read, the separator of the join,  *)
(* and the text returned when no fragment was read.                        *)
(***************************************************************************)
Fragments(name, page) ==
    CASE name = "extractGeminiChat" -> GeminiMessages(page)
      [] name = "extractGoogleDoc"  -> GoogleDocKept(page)
      [] name = "extractNotebookLM" -> NotebookMessages(page)
      [] name = "extractChatGPT"    -> ChatGPTMessages(page)
      [] name = "extractGrok"       -> GrokMessages(page)
      [] name = "extractDiscord"    -> DiscordMessages(page)
      [] name = "extractSlack"      -> SlackMessages(page)
      [] name = "extractRaindrop"   -> RaindropBookmarks(page)
      [] OTHER                      -> <<>>

Separator(name) ==
    CASE name \in {"extractGeminiChat", "extractNotebookLM",
                   "extractChatGPT", "extractGrok"} -> SepRule
      [] name \in {"extractDiscord", "extractSlack"} -> SepBlank
      [] OTHER                                       -> SepLine

\* A plausible slip: every extractor falls back to its own inline read.
FallbackInline(name, page) == InnerText(page, MainOrBody(page), {})

Fallback(name, page) ==
    CASE name = "extractGeminiChat" -> GeminiFallback(page)
      [] name = "extractNotebookLM" -> NotebookFallback(page)
      [] name = "extractGrok"       -> GrokFallback(page)
      [] OTHER                      -> extractGeneric(page)

ExtractorResult(name, page) ==
    LET fragments == Fragments(name, page)
    IN  IF fragments = <<>> THEN Fallback(name, page)
        ELSE Join(fragments, Separator(name))

(***************************************************************************)
(* Documents the browser may show.                                         *)
(***************************************************************************)
Rep(c, n) == [i \in 1..n |-> c]

Doc(title, nodes) ==
    [title |-> title, sigs |-> {}, link |-> FALSE, frames |-> <<FALSE>>,
     nodes |-> nodes]

NoPage == Doc(<<>>, <<>>)

PagePlain == Doc(<<"Plain">>, << N("p", {}, <<"h", "i">>, 0) >>)

PageChrome ==
    Doc(<<"Chrome">>,
        << N("nav", {}, <<"N">>, 0),
           N("main", {}, <<>>, 0),
           N("header", {}, <<"H">>, 2),
           N("p", {}, <<"x">>, 2),
           N("button", {}, <<"B">>, 2),
           N("script", {}, <<"S">>, 2),
           N("footer", {}, <<"F">>, 0) >>)

PageArticle ==
    Doc(<<"Article">>,
        << N("nav", {}, <<"N">>, 0),
           N("article", {}, <<>>, 0),
           N("p", {}, <<"y">>, 2),
           N("p", {}, <<"z">>, 0) >>)

PageRoleMain ==
    Doc(<<"Role">>,
        << N("div", {"role=main"}, <<>>, 0),
           N("p", {}, <<"m">>, 1),
           N("div", {"role=navigation"}, <<"o">>, 0) >>)

PageGemini ==
    Doc(<<"Gemini">>,
        << N("main", {}, <<>>, 0),
           N("div", {"data-speaker=user"}, <<>>, 1),
           N("div", {"data-message-id"}, <<" ", "q", " ">>, 2),
           N("div", {"data-message-id"}, <<"a">>, 1),
           N("div", {"data-message-id"}, <<" ">>, 1),
           N("footer", {}, <<"F">>, 0) >>)

PageChatGPT ==
    Doc(<<"ChatGPT">>,
        << N("main", {}, <<>>, 0),
           N("article", {"conversation-turn"}, <<>>, 1),
           N("div", {"user-message"}, <<>>, 2),
           N("div", {"markdown"}, <<"q">>, 3),
           N("article", {"conversation-turn"}, <<>>, 1),
           N("div", {"prose"}, <<"a">>, 5),
           N("article", {"conversation-turn"}, <<"t">>, 1) >>)

PageGrok ==
    Doc(<<"Grok">>,
        << N("main", {}, <<>>, 0),
           N("div", {"message"}, <<>>, 1),
           N("div", {"prose"}, <<"a", "n", "s", "w", "e", "r">>, 2),
           N("div", {"message-container"}, <<"s", "h", "o", "r", "t">>, 1),
           N("div", {"message"}, <<"Y", "o", "u", " ", "a", "s", "k">>, 1) >>)

PageSlack ==
    Doc(<<"Slack">>,
        << N("div", {"c-message_kit__message"}, <<>>, 0),
           N("span", {"c-message__sender"}, <<"a", "l">>, 1),
           N("div", {"c-message_kit__blocks"}, <<"h", "e", "y">>, 1),
           N("span", {"c-timestamp"}, <<"9">>, 1),
           N("div", {"role=listitem"}, <<>>, 0),
           N("span", {"c-message__sender"}, <<"b", "o">>, 5),
           N("div", {"c-message__body"}, <<"h", "e", "y">>, 5),
           N("div", {"role=listitem"}, <<"x">>, 0) >>)

PageDiscord ==
    Doc(<<"Discord">>,
        << N("li", {"message-1"}, <<>>, 0),
           N("span", {"username-1"}, <<"b", "o">>, 1),
           N("div", {"messageContent-1"}, <<"y", "o">>, 1),
           N("div", {"messageContent-1"}, <<"l", "o", "s", "t">>, 0),
           N("nav", {}, <<"N">>, 0) >>)

PageRaindrop ==
    Doc(<<"Raindrop">>,
        << N("div", {"bookmark"}, <<>>, 0),
           N("span", {"title"}, <<"T">>, 1),
           A(<<"u">>, <<"T">>, 1),
           N("div", {"bookmark"}, <<>>, 0),
           N("header", {}, <<"H">>, 0) >>)

PageDocs ==
    Doc(<<"Doc">>,
        << N("div", {"kix-appview-editor"}, <<>>, 0),
           N("div", {"kix-cursor"}, <<"|">>, 1),
           N("div", {"kix-lineview"}, Rep("d", MinDocLength), 1) >>)

PageDocsShort ==
    Doc(<<"Doc">>,
        << N("header", {}, <<"H">>, 0),
           N("div", {"kix-appview-editor"}, <<>>, 0),
           N("div", {"kix-lineview"}, Rep("d", MinDocLength - 1), 2) >>)

PageNotebook ==
    Doc(<<"Notebook">>,
        << N("main", {}, <<>>, 0),
           N("button", {}, <<"B">>, 1),
           N("div", {"chat-turn"}, <<"n">>, 1),
           N("div", {"source-card", "user"}, <<"s">>, 1) >>)

PageSlackRedirect ==
    [Doc(<<"Redirect">>, << N("p", {}, <<"o", "p", "e", "n">>, 0) >>)
        EXCEPT !.sigs = {"use Slack in your browser"}, !.link = TRUE]

PageSlackRedirectNoLink ==
    [Doc(<<"Redirect">>, << N("nav", {}, <<"a", "p", "p">>, 0) >>)
        EXCEPT !.sigs = {"open this link in your browser"}]

PageConsent ==
    [Doc(<<"Consent">>, << N("main", {}, <<"c">>, 0),
                           N("footer", {}, <<"F">>, 0) >>)
        EXCEPT !.sigs = {"ACCEPT ALL COOKIES"}, !.frames = <<FALSE, TRUE>>]

PageBoth ==
    [Doc(<<"Both">>, << N("p", {}, <<"w">>, 0) >>)
        EXCEPT !.sigs = {"use Slack in your browser", "Cookie Consent Manager"},
               !.link = TRUE, !.frames = <<FALSE>>]

\* Slack messages that repeat, nest and share a long beginning
PageSlackRepeat ==
    Doc(<<"Slack">>,
        << N("div", {"c-message_kit__message"}, <<>>, 0),
           N("span", {"c-message__sender"}, <<"a", "l">>, 1),
           N("div", {"c-message__body"}, <<"h", "e", "y", " ", "b", "o">>, 1),
           N("div", {"c-message_kit__message"}, <<>>, 0),
           N("span", {"c-message__sender"}, <<"b", "o">>, 4),
           N("div", {"c-message__body"}, <<"h", "e", "y">>, 4),
           N("div", {"c-message_kit__message"}, <<>>, 0),
           N("span", {"c-message__sender"}, <<"a", "l">>, 7),
           N("div", {"c-message__body"}, <<"h", "e", "y", " ", "b", "o">>, 7),
           N("div", {"c-message_kit__message"}, <<>>, 0),
           N("span", {"c-message__sender"}, <<"c", "y">>, 10),
           N("div", {"c-message__body"}, <<"a", "l">>, 10),
           N("div", {"c-message_kit__message"}, <<>>, 0),
           N("span", {"c-message__sender"}, <<"c", "y">>, 13),
           N("div", {"c-message__body"}, Rep("z", 50) \o <<"1">>, 13),
           N("div", {"c-message_kit__message"}, <<>>, 0),
           N("span", {"c-message__sender"}, <<"c", "y">>, 16),
           N("div", {"c-message__body"}, Rep("z", 50) \o <<"2">>, 16),
           N("div", {"c-message_kit__message"}, <<>>, 0),
           N("span", {"c-message__sender"}, <<"b", "o">>, 19),
           N("div", {"c-message__body"}, <<"n", "e", "w">>, 19) >>)

\* Grok answers that repeat, nest and share a long beginning
PageGrokRepeat ==
    Doc(<<"Grok">>,
        << N("div", {"prose"}, <<"f", "i", "r", "s", "t", " ", "o", "n", "e">>, 0),
           N("div", {"prose"}, <<"f", "i", "r", "s", "t", " ", "o", "n", "e">>, 0),
           N("div", {"prose"}, <<"r", "s", "t", " ", "o", "n">>, 0),
           N("div", {"prose"}, <<"*", "*", "G", "r", "o", "k">>, 0),
           N("div", {"prose"}, Rep("z", 50) \o <<"1">>, 0),
           N("div", {"prose"}, Rep("z", 50) \o <<"2">>, 0),
           N("div", {"prose"}, <<"s", "e", "c", "o", "n", "d">>, 0) >>)

ServicePages ==
    {PageGemini, PageChatGPT, PageGrok, PageSlack, PageDiscord, PageRaindrop,
     PageDocs, PageNotebook}

Pages ==
    ServicePages \cup
    {PagePlain, PageChrome, PageArticle, PageRoleMain, PageDocsShort,
     PageSlackRedirect, PageSlackRedirectNoLink, PageConsent, PageBoth}

\* the pages the extractor functions are called on directly
LibPages == Pages \cup {PageSlackRepeat, PageGrokRepeat}

\* what the document is after a successful click on the obstruction control
AfterClick(page) ==
    CASE page = PageSlackRedirect -> PageSlack
      [] page = PageConsent       -> PageChrome
      [] page = PageBoth          -> PagePlain
      [] OTHER                    -> page

SlackSigs   == {"open this link in your browser", "use Slack in your browser"}
ConsentSigs == {"ACCEPT ALL COOKIES", "Cookie Consent Manager"}

(***************************************************************************)
(* Error messages a browser call may reject with, and the texts of the     *)
(* handler's responses (emoji and line breaks of the literals left out).   *)
(***************************************************************************)
MsgTimeout   == <<"T","i","m","e","o","u","t"," ","3","0","0","0","0","m","s">>
MsgSignIn    == <<"P","l","e","a","s","e"," ","S","i","g","n"," ","i","n">>
MsgExpired   == <<"S","e","s","s","i","o","n"," ","e","x","p","i","r","e","d">>
MsgLoginPath == <<"g","o","t","o"," ","/","l","o","g","i","n">>
MsgCapLogin  == <<"L","o","g","i","n"," ","r","e","q","u","i","r","e","d">>
MsgNoSession ==
    <<"N","o"," ","a","u","t","h","e","n","t","i","c","a","t","e","d"," ",
      "s","e","s","s","i","o","n"," ","f","o","u","n","d","."," ","R","u","n",
      " ","a","u","t","h"," ","s","e","t","u","p"," ","f","i","r","s","t",":",
      " ","b","u","n"," ","r","u","n"," ","a","u","t","h">>

ErrMsgs == {MsgTimeout, MsgSignIn, MsgExpired, MsgLoginPath, MsgCapLogin}

NeedleExpired == <<"S","e","s","s","i","o","n"," ","e","x","p","i","r","e","d">>
NeedleSignIn  == <<"S","i","g","n"," ","i","n">>
NeedleLogin   == <<"l","o","g","i","n">>

\* A plausible slip: the test looks for the word "session" alone.
IsAuthWallAnySession(errorMsg) ==
    \/ Includes(errorMsg, <<"s","e","s","s","i","o","n">>)
    \/ Includes(errorMsg, NeedleSignIn)
    \/ Includes(errorMsg, NeedleLogin)

\* A plausible slip: the "login" needle is dropped from the test.
IsAuthWallNoLogin(errorMsg) ==
    Includes(errorMsg, NeedleExpired) \/ Includes(errorMsg, NeedleSignIn)

\* errorMsg.includes('Session expired') || .includes('Sign in') || .includes('login')
IsAuthWall(errorMsg) ==
    \/ Includes(errorMsg, NeedleExpired)
    \/ Includes(errorMsg, NeedleSignIn)
    \/ Includes(errorMsg, NeedleLogin)

Resp(text, isError) == [text |-> text, isError |-> isError]

TextUrlRequired == <<"Error: URL is required">>
TextNoSession ==
    <<"No authenticated session found. To set up authentication, run: ",
      "cd Projects/resource-traversal-mcp && bun run auth",
      " This will open a browser for you to log in to Google.">>
TextAuthFound ==
    <<"Authenticated session found. You can use traverse_resource to fetch content from authenticated URLs.">>
TextAuthMissing ==
    <<"No authenticated session found. To set up authentication, run: ",
      "cd Projects/resource-traversal-mcp && bun run auth">>
TextUnknownTool(name) == <<"Unknown tool: ", name>>
TextReauth(url) ==
    <<"Session Expired or Auth Required. The AI hit a login wall at: ">> \o url
    \o <<" Action Required: Run the Universal Auth Key to refresh your session: ",
         "cd Projects/resource-traversal-mcp && bun run auth ">> \o url
TextError(errorMessage) == <<"Error: ">> \o errorMessage

\* A plausible slip: the label is appended without testing for null.
ServiceLabelAlways(service) == <<" (", service, ")">>

\* the label the heading carries: service ? " (service)" : ""
ServiceLabel(service) ==
    IF service # NULL THEN <<" (", service, ")">> ELSE <<>>

\* A plausible slip: the source line is left out of the document.
FormatOutputNoSource(title, service, url, content) ==
    Join(<< <<"# ">> \o title \o ServiceLabel(service),
            <<>>,
            <<"---">>,
            <<>>,
            content >>, <<"\n">>)

FormatOutput(title, service, url, content) ==
    Join(<< <<"# ">> \o title \o ServiceLabel(service),
            <<>>,
            <<"**Source:** ">> \o url,
            <<>>,
            <<"---">>,
            <<>>,
            content >>, <<"\n">>)

(***************************************************************************)
(* State.                                                                  *)
(*   profileExists : PROFILE_DIR exists on disk (what hasAuthSession reads)*)
(*   call          : the handler invocations; each one's position in the   *)
(*                   handler / fetch function / extractor and its locals   *)
(*   lib           : the last direct call of an exported library function  *)
(***************************************************************************)
VARIABLES profileExists, call, lib, auth

vars == <<profileExists, call, lib, auth>>

NumCalls == 2
Calls == 1..NumCalls

Tools   == {"traverse_resource", "check_auth", "list_files"}
RawArgs == {"true", "false", "undefined"}

ChatGPTScrolls == 10
GrokScrolls    == 15
SlackScrolls   == 15

ScrollLimit(name) ==
    CASE name = "extractChatGPT" -> ChatGPTScrolls
      [] name = "extractGrok"    -> GrokScrolls
      [] name = "extractSlack"   -> SlackScrolls
      [] OTHER                   -> 0

IdleCall ==
    [pc |-> "idle", tool |-> NULL, url |-> <<>>, raw |-> "undefined",
     sawSession |-> "unchecked", service |-> NULL, fn |-> NULL,
     extractor |-> NULL, fetches |-> 0, launches |-> 0, closes |-> 0,
     ctx |-> "none", page |-> NoPage, pageContent |-> {},
     detected |-> FALSE, barrierFailed |-> FALSE, clicks |-> 0,
     title |-> <<>>, i |-> 0, selTimeout |-> FALSE, usedFallback |-> FALSE,
     ran |-> NULL, content |-> <<>>, thrown |-> FALSE, err |-> <<>>,
     failedAt |-> NULL, responses |-> <<>>, steps |-> <<>>]

LibIdle ==
    [fn |-> NULL, url |-> <<>>, name |-> NULL, page |-> NoPage, out |-> <<>>,
     kept |-> <<>>, trace |-> <<>>]

\* context.waitForEvent('close', { timeout: 300000 })
AuthTimeoutMs == 300000

\* the clock of the login wait advances in steps of one minute
TickMs == 60000

\* process.argv[2] || 'https://accounts.google.com'
UrlAccounts == Https("accounts.google.com", <<>>)

\* the auth script before it is started
AuthIdle ==
    [pc |-> "idle", startUrl |-> <<>>, sawSession |-> "unchecked",
     ctx |-> "none", elapsed |-> 0, closedByUser |-> FALSE, timedOut |-> FALSE,
     launchForAuth |-> "not called", err |-> <<>>, failedAt |-> NULL,
     printed |-> {}, exit |-> NULL]

Init ==
    /\ profileExists \in BOOLEAN
    /\ call = [c \in Calls |-> IdleCall]
    /\ lib = LibIdle
    /\ auth = AuthIdle

\* fs.existsSync(PROFILE_DIR)
hasAuthSession == profileExists

Quiet == \A c \in Calls : call[c].pc = "idle"

Become(c, rec) == call' = [call EXCEPT ![c] = rec]

\* a browser call rejects with message e; control moves to `to`
Throw(c, e, to) ==
    Become(c, [call[c] EXCEPT !.thrown = TRUE, !.err = e,
                              !.failedAt = call[c].pc, !.pc = to])

Respond(rec, text, isError) ==
    [rec EXCEPT !.responses = Append(@, Resp(text, isError)),
                !.steps = Append(@, "return"), !.pc = "done"]

(***************************************************************************)
(* index.ts: the CallToolRequestSchema handler up to its first await.      *)
(***************************************************************************)
\* A plausible slip: raw mode no longer forces the raw fetch.
UsesRawFetchIgnoringRaw(raw, service) == service = NULL

\* if (raw || !service) fetchAuthenticated else fetchWithExtractor
UsesRawFetch(raw, service) == raw = "true" \/ service = NULL

\* A plausible slip: the handler forgets the session check.
SessionGateOpen(present) == TRUE

\* if (!hasAuthSession()) return the remediation text
SessionGate(present) == present

HandlerStart(c, name, url, raw) ==
    /\ call[c].pc = "idle"
    /\ LET rec == [IdleCall EXCEPT !.tool = name, !.url = url, !.raw = raw]
           service == detectService(url)
       IN  CASE name = "traverse_resource" ->
                  IF url = <<>>
                  THEN Become(c, Respond(rec, TextUrlRequired, TRUE))
                  ELSE IF ~SessionGate(hasAuthSession)
                  THEN Become(c, Respond([rec EXCEPT !.sawSession = "no"],
                                       TextNoSession, TRUE))
                  ELSE Become(c, [rec EXCEPT
                          !.sawSession = IF hasAuthSession THEN "yes" ELSE "no",
                          !.service = service,
                          !.fn = IF UsesRawFetch(raw, service)
                                 THEN "fetchAuthenticated"
                                 ELSE "fetchWithExtractor",
                          !.extractor = IF UsesRawFetch(raw, service)
                                        THEN NULL ELSE getExtractor(url),
                          !.pc = "f_check"])
             [] name = "check_auth" ->
                  Become(c, Respond([rec EXCEPT
                          !.sawSession = IF hasAuthSession THEN "yes" ELSE "no"],
                          IF hasAuthSession THEN TextAuthFound ELSE TextAuthMissing,
                          FALSE))
             [] OTHER ->
                  Become(c, Respond(rec, TextUnknownTool(name), TRUE))
    /\ UNCHANGED <<profileExists, lib, auth>>

(***************************************************************************)
(* lib/browser.ts: fetchAuthenticated and fetchWithExtractor, from the     *)
(* session check to the finally block.  The two functions differ in the    *)
(* settle delay and in what runs after page.title().                       *)
(***************************************************************************)
\* A plausible slip: the fetch function goes on to launch without the check.
FetchCheckNoGate(c) ==
    /\ call[c].pc = "f_check"
    /\ Become(c, [call[c] EXCEPT !.fetches = @ + 1, !.pc = "f_launch"])
    /\ UNCHANGED <<profileExists, lib, auth>>

\* if (!hasAuthSession()) throw new Error('No authenticated session found...')
FetchCheck(c) ==
    /\ call[c].pc = "f_check"
    /\ IF hasAuthSession
       THEN Become(c, [call[c] EXCEPT !.fetches = @ + 1, !.pc = "f_launch"])
       ELSE Become(c, [call[c] EXCEPT !.fetches = @ + 1, !.thrown = TRUE,
                                    !.err = MsgNoSession, !.failedAt = "f_check",
                                    !.pc = "h_catch"])
    /\ UNCHANGED <<profileExists, lib, auth>>

\* chromium.launchPersistentContext(PROFILE_DIR, ...), before the try block
Launch(c) ==
    /\ call[c].pc = "f_launch"
    /\ \/ /\ Become(c, [call[c] EXCEPT !.launches = @ + 1, !.ctx = "open",
                                     !.steps = Append(@, "acquire"),
                                     !.pc = "f_page"])
          /\ profileExists' = TRUE
       \/ /\ \E e \in ErrMsgs : Throw(c, e, "h_catch")
          /\ profileExists' \in {profileExists, TRUE}
    /\ UNCHANGED <<lib, auth>>

\* context.pages()[0] || await context.newPage(); page.addInitScript
NewPage(c) ==
    /\ call[c].pc = "f_page"
    /\ \/ Become(c, [call[c] EXCEPT !.pc = "f_goto"])
       \/ \E e \in ErrMsgs : Throw(c, e, "f_finally")
    /\ UNCHANGED <<profileExists, lib, auth>>

\* A plausible slip: the settle delay after the navigation is left out.
NavigateNoSettle(c) ==
    /\ call[c].pc = "f_goto"
    /\ \/ \E p \in Pages : Become(c, [call[c] EXCEPT
                                !.page = p,
                                !.steps = Append(@, "navigate"),
                                !.pc = "f_content"])
       \/ \E e \in ErrMsgs : Throw(c, e, "f_finally")
    /\ UNCHANGED <<profileExists, lib, auth>>

\* page.goto(url, { waitUntil: 'domcontentloaded', timeout: 30000 })
Navigate(c) ==
    /\ call[c].pc = "f_goto"
    /\ \/ \E p \in Pages : Become(c, [call[c] EXCEPT !.page = p,
                                    !.steps = Append(@, "navigate"),
                                    !.pc = "f_settle"])
       \/ \E e \in ErrMsgs : Throw(c, e, "f_finally")
    /\ UNCHANGED <<profileExists, lib, auth>>

\* A plausible slip: the raw fetch goes from the settle delay to page.title().
SettleThenTitleWhenRaw(c) ==
    /\ call[c].pc = "f_settle"
    /\ \/ Become(c, [call[c] EXCEPT
              !.steps = Append(@, "settle"),
              !.pc = IF call[c].fn = "fetchAuthenticated" THEN "f_title"
                     ELSE "f_content"])
       \/ \E e \in ErrMsgs : Throw(c, e, "f_finally")
    /\ UNCHANGED <<profileExists, lib, auth>>

\* page.waitForTimeout(2000 | 5000)
Settle(c) ==
    /\ call[c].pc = "f_settle"
    /\ \/ Become(c, [call[c] EXCEPT !.steps = Append(@, "settle"),
                                  !.pc = "f_content"])
       \/ \E e \in ErrMsgs : Throw(c, e, "f_finally")
    /\ UNCHANGED <<profileExists, lib, auth>>

\* const pageContent = await page.content(), outside any try/catch
ReadContent(c) ==
    /\ call[c].pc = "f_content"
    /\ \/ Become(c, [call[c] EXCEPT !.pageContent = call[c].page.sigs,
                                  !.detected = TRUE, !.pc = "f_slack"])
       \/ \E e \in ErrMsgs : Throw(c, e, "f_finally")
    /\ UNCHANGED <<profileExists, lib, auth>>

\* A plausible slip: the app-redirect block loses its try/catch.
SlackBarrierUncaught(c) ==
    /\ call[c].pc = "f_slack"
    /\ LET rec == call[c]
       IN  IF rec.pageContent \cap SlackSigs = {}
           THEN Become(c, [rec EXCEPT !.pc = "f_consent"])
           ELSE \/ /\ ~rec.page.link
                   /\ Become(c, [rec EXCEPT !.pc = "f_consent"])
                \/ /\ rec.page.link
                   /\ Become(c, [rec EXCEPT !.page = AfterClick(@), !.clicks = @ + 1,
                                            !.pc = "f_consent"])
                \/ \E e \in ErrMsgs :
                       Become(c, [rec EXCEPT !.barrierFailed = TRUE, !.thrown = TRUE,
                                             !.err = e, !.failedAt = "f_slack",
                                             !.pc = "f_finally"])
    /\ UNCHANGED <<profileExists, lib, auth>>

\* the app-redirect block: page.$, click, waitForTimeout(5000) in try/catch
SlackBarrier(c) ==
    /\ call[c].pc = "f_slack"
    /\ LET rec == call[c]
       IN  IF rec.pageContent \cap SlackSigs = {}
           THEN Become(c, [rec EXCEPT !.pc = "f_consent"])
           ELSE \/ /\ ~rec.page.link
                   /\ Become(c, [rec EXCEPT !.pc = "f_consent"])
                \/ /\ rec.page.link
                   /\ Become(c, [rec EXCEPT !.page = AfterClick(@), !.clicks = @ + 1,
                                          !.pc = "f_consent"])
                \/ Become(c, [rec EXCEPT !.barrierFailed = TRUE, !.pc = "f_consent"])
                \/ /\ rec.page.link
                   /\ Become(c, [rec EXCEPT !.page = AfterClick(@), !.clicks = @ + 1,
                                          !.barrierFailed = TRUE,
                                          !.pc = "f_consent"])
    /\ UNCHANGED <<profileExists, lib, auth>>

\* the consent-wall block: for each frame, frame.$, click, wait, break
ConsentBarrier(c) ==
    /\ call[c].pc = "f_consent"
    /\ LET rec == call[c]
           hasButton == \E k \in 1..Len(rec.page.frames) : rec.page.frames[k]
       IN  IF rec.pageContent \cap ConsentSigs = {}
           THEN Become(c, [rec EXCEPT !.steps = Append(@, "barrier"),
                                      !.pc = "f_title"])
           ELSE \/ /\ ~hasButton
                   /\ Become(c, [rec EXCEPT !.steps = Append(@, "barrier"),
                                          !.pc = "f_title"])
                \/ /\ hasButton
                   /\ Become(c, [rec EXCEPT !.page = AfterClick(@), !.clicks = @ + 1,
                                          !.steps = Append(@, "barrier"),
                                          !.pc = "f_title"])
                \/ Become(c, [rec EXCEPT !.barrierFailed = TRUE,
                                       !.steps = Append(@, "barrier"),
                                       !.pc = "f_title"])
                \/ /\ hasButton
                   /\ Become(c, [rec EXCEPT !.page = AfterClick(@), !.clicks = @ + 1,
                                          !.barrierFailed = TRUE,
                                          !.steps = Append(@, "barrier"),
                                          !.pc = "f_title"])
    /\ UNCHANGED <<profileExists, lib, auth>>

\* where the extractor starts: Grok opens with a plain delay, the generic
\* extractor with its only page.evaluate, the others with waitForSelector
EntryPc(name) ==
    CASE name = "extractGrok"    -> "x_delay"
      [] name = "extractGeneric" -> "x_read"
      [] OTHER                   -> "x_wait"

\* page.title(); then the raw page.evaluate or extractor(page)
ReadTitle(c) ==
    /\ call[c].pc = "f_title"
    /\ \/ Become(c, [call[c] EXCEPT
              !.title = call[c].page.title,
              !.steps = Append(@, "title"),
              !.ran = IF call[c].fn = "fetchAuthenticated" THEN "raw"
                      ELSE call[c].extractor,
              !.pc = IF call[c].fn = "fetchAuthenticated" THEN "f_raw"
                     ELSE EntryPc(call[c].extractor)])
       \/ \E e \in ErrMsgs : Throw(c, e, "f_finally")
    /\ UNCHANGED <<profileExists, lib, auth>>

\* fetchAuthenticated: page.evaluate(() => ... document.body?.innerText || '')
RawRead(c) ==
    /\ call[c].pc = "f_raw"
    /\ \/ Become(c, [call[c] EXCEPT !.content = RawBodyText(call[c].page),
                                  !.steps = Append(@, "extract"),
                                  !.pc = "f_finally"])
       \/ \E e \in ErrMsgs : Throw(c, e, "f_finally")
    /\ UNCHANGED <<profileExists, lib, auth>>

(***************************************************************************)
(* lib/extractors.ts: the steps of the extractor that fetchWithExtractor   *)
(* awaits.                                                                 *)
(***************************************************************************)
AfterWaitPc(name) ==
    CASE name \in {"extractGoogleDoc", "extractNotebookLM"} -> "x_delay"
      [] name \in {"extractChatGPT", "extractSlack"}        -> "x_scroll"
      [] OTHER                                              -> "x_read"

\* A plausible slip: the wait loses its .catch(() => { }).
SelectorWaitUncaught(c) ==
    /\ call[c].pc = "x_wait"
    /\ \/ Become(c, [call[c] EXCEPT !.pc = AfterWaitPc(call[c].extractor)])
       \/ Become(c, [call[c] EXCEPT !.selTimeout = TRUE, !.thrown = TRUE,
                                    !.err = MsgTimeout, !.failedAt = "x_wait",
                                    !.pc = "f_finally"])
    /\ UNCHANGED <<profileExists, lib, auth>>

\* page.waitForSelector(..., { timeout }).catch(() => { })
SelectorWait(c) ==
    /\ call[c].pc = "x_wait"
    /\ \E timedOut \in BOOLEAN :
          Become(c, [call[c] EXCEPT !.selTimeout = timedOut,
                                  !.pc = AfterWaitPc(call[c].extractor)])
    /\ UNCHANGED <<profileExists, lib, auth>>

\* page.waitForTimeout(10000 | 3000 | 8000), not guarded
ExtractorDelay(c) ==
    /\ call[c].pc = "x_delay"
    /\ \/ Become(c, [call[c] EXCEPT
              !.pc = IF call[c].extractor = "extractGrok" THEN "x_scroll"
                     ELSE "x_read"])
       \/ \E e \in ErrMsgs : Throw(c, e, "f_finally")
    /\ UNCHANGED <<profileExists, lib, auth>>

\* A plausible slip: the loop condition reads i <= limit.
ScrollStepOffByOne(c) ==
    /\ call[c].pc = "x_scroll"
    /\ call[c].i <= ScrollLimit(call[c].extractor)
    /\ \/ Become(c, [call[c] EXCEPT
              !.i = @ + 1,
              !.pc = IF call[c].i + 1 <= ScrollLimit(call[c].extractor)
                     THEN "x_scroll" ELSE "x_read"])
       \/ \E e \in ErrMsgs : Throw(c, e, "f_finally")
    /\ UNCHANGED <<profileExists, lib, auth>>

\* one iteration of the scroll loop: page.evaluate(scrollTop = 0); waitForTimeout
ScrollStep(c) ==
    /\ call[c].pc = "x_scroll"
    /\ call[c].i < ScrollLimit(call[c].extractor)
    /\ \/ Become(c, [call[c] EXCEPT
              !.i = @ + 1,
              !.pc = IF call[c].i + 1 < ScrollLimit(call[c].extractor)
                     THEN "x_scroll" ELSE "x_read"])
       \/ \E e \in ErrMsgs : Throw(c, e, "f_finally")
    /\ UNCHANGED <<profileExists, lib, auth>>

\* the page.evaluate that collects the fragments
ReadFragments(c) ==
    /\ call[c].pc = "x_read"
    /\ LET rec == call[c]
           fragments == Fragments(rec.extractor, rec.page)
       IN  \/ IF rec.extractor = "extractGeneric"
              THEN Become(c, [rec EXCEPT !.content = extractGeneric(rec.page),
                                       !.steps = Append(@, "extract"),
                                       !.pc = "f_finally"])
              ELSE IF fragments = <<>>
              THEN Become(c, [rec EXCEPT !.pc = "x_fallback"])
              ELSE Become(c, [rec EXCEPT
                       !.content = Join(fragments, Separator(rec.extractor)),
                       !.steps = Append(@, "extract"),
                       !.pc = "f_finally"])
           \/ \E e \in ErrMsgs : Throw(c, e, "f_finally")
    /\ UNCHANGED <<profileExists, lib, auth>>

\* if (messages.length === 0) return <fallback read>
FallbackRead(c) ==
    /\ call[c].pc = "x_fallback"
    /\ \/ Become(c, [call[c] EXCEPT
              !.content = Fallback(call[c].extractor, call[c].page),
              !.usedFallback = TRUE, !.steps = Append(@, "extract"), !.pc = "f_finally"])
       \/ \E e \in ErrMsgs : Throw(c, e, "f_finally")
    /\ UNCHANGED <<profileExists, lib, auth>>

(***************************************************************************)
(* lib/browser.ts: the finally block; index.ts: the handler's catch blocks *)
(* and its success path.                                                   *)
(***************************************************************************)
\* A plausible slip: the context is closed only on the success path.
CloseContextOnSuccessOnly(c) ==
    /\ call[c].pc = "f_finally"
    /\ IF call[c].thrown
       THEN Become(c, [call[c] EXCEPT !.pc = "h_catch"])
       ELSE Become(c, [call[c] EXCEPT !.closes = @ + 1, !.ctx = "closed",
                                      !.steps = Append(@, "release"),
                                      !.pc = "h_format"])
    /\ UNCHANGED <<profileExists, lib, auth>>

\* A plausible slip: the context is kept in a variable of the module, shared
\* by the calls, so that a close reaches the contexts of the other calls.
CloseContextShared(c) ==
    /\ call[c].pc = "f_finally"
    /\ call' = [d \in Calls |->
                  IF d = c
                  THEN [call[c] EXCEPT
                           !.closes = @ + 1, !.ctx = "closed",
                           !.steps = Append(@, "release"),
                           !.pc = IF call[c].thrown THEN "h_catch" ELSE "h_format"]
                  ELSE IF call[d].ctx = "open"
                  THEN [call[d] EXCEPT !.ctx = "closed"]
                  ELSE call[d]]
    /\ UNCHANGED <<profileExists, lib, auth>>

\* finally { await context.close(); }  A rejection of close() replaces the
\* pending outcome; it is raised when the browser is already gone.  failedAt
\* keeps the first step that failed.
CloseContext(c) ==
    /\ call[c].pc = "f_finally"
    /\ \/ Become(c, [call[c] EXCEPT
              !.closes = @ + 1, !.ctx = "closed",
              !.steps = Append(@, "release"),
              !.pc = IF call[c].thrown THEN "h_catch" ELSE "h_format"])
       \/ \E e \in ErrMsgs :
              Become(c, [call[c] EXCEPT !.closes = @ + 1, !.ctx = "closed",
                                        !.steps = Append(@, "release"),
                                        !.thrown = TRUE, !.err = e,
                                        !.failedAt = IF call[c].thrown THEN @
                                                     ELSE "f_finally",
                                        !.pc = "h_catch"])
    /\ UNCHANGED <<profileExists, lib, auth>>

\* A plausible slip: the outer try/catch is missing, so that the rethrown
\* error leaves the handler and the invocation ends without a response.
HandlerCatchNoOuter(c) ==
    /\ call[c].pc = "h_catch"
    /\ IF IsAuthWall(call[c].err)
       THEN Become(c, Respond(call[c], TextReauth(call[c].url), TRUE))
       ELSE Become(c, [call[c] EXCEPT !.pc = "done"])
    /\ UNCHANGED <<profileExists, lib, auth>>

\* catch (fetchError): the auth-wall test, else rethrow into the outer catch
HandlerCatch(c) ==
    /\ call[c].pc = "h_catch"
    /\ IF IsAuthWall(call[c].err)
       THEN Become(c, Respond(call[c], TextReauth(call[c].url), TRUE))
       ELSE Become(c, Respond(call[c], TextError(call[c].err), TRUE))
    /\ UNCHANGED <<profileExists, lib, auth>>

\* the formatted document of the success path
HandlerFormat(c) ==
    /\ call[c].pc = "h_format"
    /\ Become(c, Respond(call[c],
                         FormatOutput(call[c].title, call[c].service,
                                      call[c].url, call[c].content),
                         FALSE))
    /\ UNCHANGED <<profileExists, lib, auth>>

\* the response has been handed to the transport; the invocation is over
Return(c) ==
    /\ call[c].pc = "done"
    /\ Become(c, IdleCall)
    /\ UNCHANGED <<profileExists, lib, auth>>

(***************************************************************************)
(* The profile directory is created by the login launch of the auth script *)
(* and removed by hand.                                                    *)
(***************************************************************************)
ProfileCreated ==
    /\ ~profileExists
    /\ profileExists' = TRUE
    /\ UNCHANGED <<call, lib, auth>>

ProfileRemoved ==
    /\ profileExists
    /\ profileExists' = FALSE
    /\ UNCHANGED <<call, lib, auth>>

FetchStep(c) ==
    \/ FetchCheck(c) \/ Launch(c) \/ NewPage(c) \/ Navigate(c) \/ Settle(c)
    \/ ReadContent(c) \/ SlackBarrier(c) \/ ConsentBarrier(c) \/ ReadTitle(c)
    \/ RawRead(c) \/ CloseContext(c)

ExtractorStep(c) ==
    \/ SelectorWait(c) \/ ExtractorDelay(c) \/ ScrollStep(c)
    \/ ReadFragments(c) \/ FallbackRead(c)

Request(c) ==
    \/ \E url \in Urls, raw \in RawArgs : HandlerStart(c, "traverse_resource", url, raw)
    \/ \E name \in Tools \ {"traverse_resource"} :
           HandlerStart(c, name, UrlEmpty, "undefined")

\* Requests served one at a time: a client that awaits each response.
Next ==
    \/ \E c \in Calls : Quiet /\ Request(c)
    \/ \E c \in Calls : FetchStep(c)
    \/ \E c \in Calls : ExtractorStep(c)
    \/ \E c \in Calls : HandlerCatch(c) \/ HandlerFormat(c) \/ Return(c)
    \/ ProfileCreated
    \/ ProfileRemoved

Spec == Init /\ [][Next]_vars

(***************************************************************************)
(* Requests that overlap: the server starts a handler for every request as *)
(* it arrives, and the handlers interleave at their awaits.  One page, one *)
(* error message, two URLs (one per fetch function) and failures of the    *)
(* launch, the navigation and the close only keep the product of the calls *)
(* small.                                                                  *)
(***************************************************************************)
ConcUrls == {UrlExample, UrlDiscord}

ConcShape ==
    \A c \in Calls :
        /\ call[c].page \in {NoPage, PageDiscord}
        /\ call[c].err \in {<<>>, MsgTimeout, MsgNoSession}
        /\ call[c].failedAt \in {NULL, "f_check", "f_launch", "f_goto", "f_finally"}
        /\ ~call[c].selTimeout

ConcRequest(c) ==
    \E url \in ConcUrls : HandlerStart(c, "traverse_resource", url, "false")

NextConc ==
    \/ \E c \in Calls : ConcRequest(c)
    \/ \E c \in Calls :
          /\ \/ FetchCheck(c) \/ Launch(c) \/ NewPage(c) \/ Navigate(c)
             \/ Settle(c) \/ ReadContent(c) \/ SlackBarrier(c)
             \/ ConsentBarrier(c) \/ ReadTitle(c) \/ RawRead(c)
             \/ SelectorWait(c) \/ ReadFragments(c) \/ CloseContext(c)
          /\ ConcShape'
    \/ \E c \in Calls : HandlerCatch(c) \/ HandlerFormat(c) \/ Return(c)
    \/ ProfileRemoved

SpecConc == Init /\ [][NextConc]_vars

(***************************************************************************)
(* Direct calls of the exported functions of lib/extractors.ts.            *)
(***************************************************************************)
LibDetect(url) ==
    /\ lib' = [LibIdle EXCEPT !.fn = "detectService", !.url = url,
                              !.name = detectService(url)]
    /\ UNCHANGED <<profileExists, call, auth>>

LibGetExtractor(url) ==
    /\ lib' = [LibIdle EXCEPT !.fn = "getExtractor", !.url = url,
                              !.name = getExtractor(url)]
    /\ UNCHANGED <<profileExists, call, auth>>

\* an extractor run to completion on a page, no browser call failing
LibExtract(name, page) ==
    /\ lib' = [LibIdle EXCEPT !.fn = "extract", !.name = name, !.page = page,
                              !.out = ExtractorResult(name, page)]
    /\ UNCHANGED <<profileExists, call, auth>>

\* the page.evaluate of extractGrok or extractSlack that collects the
\* messages, with the decisions of its duplicate test
LibCollect(name, page) ==
    /\ lib' = [LibIdle EXCEPT !.fn = "collect", !.name = name, !.page = page,
                              !.kept = Fragments(name, page),
                              !.trace = Dedup(Candidates(name, page), <<>>)]
    /\ UNCHANGED <<profileExists, call, auth>>

NextLib ==
    \/ \E url \in Urls : LibDetect(url)
    \/ \E url \in Urls : LibGetExtractor(url)
    \/ \E name \in Extractors, page \in Pages : LibExtract(name, page)
    \/ \E name \in {"extractGrok", "extractSlack"}, page \in LibPages :
           LibCollect(name, page)

SpecLib == Init /\ [][NextLib]_vars

(***************************************************************************)
(* The auth script (scripts/auth.ts) and launchForAuth (lib/browser.ts).   *)
(* The person at the browser may close it at any moment after it opened.   *)
(***************************************************************************)
\* Playwright's message when waitForEvent runs out of time
MsgWaitTimeout ==
    <<"T","i","m","e","o","u","t"," ","3","0","0","0","0","0","m","s">>

AuthBecome(rec) == auth' = rec

\* launchForAuth rejects with e; main().catch receives it
AuthReject(e) ==
    AuthBecome([auth EXCEPT !.err = e, !.launchForAuth = "rejected",
                            !.failedAt = auth.pc, !.pc = "a_catch"])

\* main(): startUrl, the hasAuthSession() banner, then launchForAuth(startUrl)
AuthMain(urlArg) ==
    /\ auth.pc = "idle"
    /\ AuthBecome([AuthIdle EXCEPT
          !.startUrl = IF urlArg = <<>> THEN UrlAccounts ELSE urlArg,
          !.sawSession = IF hasAuthSession THEN "yes" ELSE "no",
          !.launchForAuth = "pending",
          !.pc = "a_launch"])
    /\ UNCHANGED <<profileExists, call, lib>>

\* chromium.launchPersistentContext(PROFILE_DIR, { headless: false, ... })
AuthLaunch ==
    /\ auth.pc = "a_launch"
    /\ \/ /\ AuthBecome([auth EXCEPT !.ctx = "open", !.pc = "a_page"])
          /\ profileExists' = TRUE
       \/ /\ \E e \in ErrMsgs : AuthReject(e)
          /\ profileExists' \in {profileExists, TRUE}
    /\ UNCHANGED <<call, lib>>

\* context.pages()[0] || await context.newPage(); page.addInitScript
AuthNewPage ==
    /\ auth.pc = "a_page"
    /\ \/ /\ auth.ctx = "open"
          /\ AuthBecome([auth EXCEPT !.pc = "a_goto"])
       \/ \E e \in ErrMsgs : AuthReject(e)
    /\ UNCHANGED <<profileExists, call, lib>>

\* page.goto(startUrl)
AuthGoto ==
    /\ auth.pc = "a_goto"
    /\ \/ /\ auth.ctx = "open"
          /\ AuthBecome([auth EXCEPT !.pc = "a_wait"])
       \/ \E e \in ErrMsgs : AuthReject(e)
    /\ UNCHANGED <<profileExists, call, lib>>

\* the person closes the browser window
UserClosesBrowser ==
    /\ auth.pc \in {"a_page", "a_goto", "a_wait"}
    /\ auth.ctx = "open"
    /\ AuthBecome([auth EXCEPT !.ctx = "closed", !.closedByUser = TRUE])
    /\ UNCHANGED <<profileExists, call, lib>>

\* time passes while context.waitForEvent('close', ...) is pending
AuthTick ==
    /\ auth.pc = "a_wait"
    /\ auth.ctx = "open"
    /\ auth.elapsed < AuthTimeoutMs
    /\ AuthBecome([auth EXCEPT
          !.elapsed = IF @ + TickMs > AuthTimeoutMs THEN AuthTimeoutMs
                      ELSE @ + TickMs])
    /\ UNCHANGED <<profileExists, call, lib>>

\* the 'close' event arrives: waitForEvent resolves, launchForAuth returns
AuthWaitResolves ==
    /\ auth.pc = "a_wait"
    /\ auth.ctx = "closed"
    /\ AuthBecome([auth EXCEPT !.launchForAuth = "resolved",
                               !.printed = @ \cup {"Authentication complete"},
                               !.pc = "a_success"])
    /\ UNCHANGED <<profileExists, call, lib>>

\* A plausible repair: the wait sits in a try block whose finally closes the
\* context before the error goes on to the caller.
AuthWaitTimeoutClosing ==
    /\ auth.pc = "a_wait"
    /\ auth.ctx = "open"
    /\ auth.elapsed = AuthTimeoutMs
    /\ AuthBecome([auth EXCEPT !.timedOut = TRUE, !.err = MsgWaitTimeout,
                               !.ctx = "closed",
                               !.launchForAuth = "rejected",
                               !.failedAt = "a_wait", !.pc = "a_catch"])
    /\ UNCHANGED <<profileExists, call, lib>>

\* 300000 ms have passed without a 'close' event: waitForEvent rejects with
\* a TimeoutError, which launchForAuth does not catch
AuthWaitTimeout ==
    /\ auth.pc = "a_wait"
    /\ auth.ctx = "open"
    /\ auth.elapsed = AuthTimeoutMs
    /\ AuthBecome([auth EXCEPT !.timedOut = TRUE, !.err = MsgWaitTimeout,
                               !.launchForAuth = "rejected",
                               !.failedAt = "a_wait", !.pc = "a_catch"])
    /\ UNCHANGED <<profileExists, call, lib>>

\* main() prints the success banner and the process ends
AuthSuccess ==
    /\ auth.pc = "a_success"
    /\ AuthBecome([auth EXCEPT !.printed = @ \cup {"Success!"},
                               !.exit = "0", !.pc = "exited"])
    /\ UNCHANGED <<profileExists, call, lib>>

\* main().catch: console.error and process.exit(1); the browser goes with it
AuthCatch ==
    /\ auth.pc = "a_catch"
    /\ AuthBecome([auth EXCEPT !.printed = @ \cup {"setup failed"},
                               !.exit = "1", !.pc = "exited",
                               !.ctx = IF @ = "open" THEN "closed" ELSE @])
    /\ UNCHANGED <<profileExists, call, lib>>

\* the script is run again
AuthAgain ==
    /\ auth.pc = "exited"
    /\ AuthBecome(AuthIdle)
    /\ UNCHANGED <<profileExists, call, lib>>

NextAuth ==
    \/ \E urlArg \in Urls : AuthMain(urlArg)
    \/ AuthLaunch
    \/ AuthNewPage
    \/ AuthGoto
    \/ UserClosesBrowser
    \/ AuthTick
    \/ AuthWaitResolves
    \/ AuthWaitTimeout
    \/ AuthSuccess
    \/ AuthCatch
    \/ AuthAgain
    \/ ProfileRemoved

SpecAuth == Init /\ [][NextAuth]_vars

(***************************************************************************)
(* Properties.                                                             *)
(***************************************************************************)
Returned(c) == call[c].pc = "done"

\* the handler is past the await of the fetch function
FetchOver(c) == call[c].pc \in {"h_catch", "h_format", "done"}

TheResponse(c) == call[c].responses[1]

\* the first line of a text
RECURSIVE FirstLine(_)
FirstLine(text) ==
    IF text = <<>> \/ Head(text) = "\n" THEN <<>>
    ELSE <<Head(text)>> \o FirstLine(Tail(text))

\* C1: a traversal call launches at most one browser context and closes
\* every context it launched exactly once before the fetch returns or throws,
\* on the success path, the fallback path and every error path; no context
\* is open once the call is over.
C1_ContextReleasedOnce ==
    \A c \in Calls :
        /\ call[c].launches <= 1
        /\ call[c].closes <= call[c].launches
        /\ call[c].ctx = "open" => call[c].launches = 1 /\ call[c].closes = 0
        /\ FetchOver(c) \/ call[c].pc = "idle" =>
              /\ call[c].closes = call[c].launches
              /\ call[c].ctx # "open"

\* a call that launched a context, failed inside the extractor and is over
C1_Witness ==
    \E c \in Calls :
        /\ Returned(c)
        /\ call[c].launches = 1
        /\ call[c].closes = 1
        /\ call[c].thrown
        /\ call[c].failedAt \in {"x_read", "x_fallback", "x_scroll", "x_delay"}

\* C2: when the handler finds no session, traverse_resource (for any
\* non-empty URL) answers with the no-session remediation text and never
\* reaches the fetch function or a browser launch, and check_auth reports
\* the absence.
C2_NoSessionNoLaunch ==
    \A c \in Calls :
        call[c].sawSession = "no" =>
           /\ Returned(c)
           /\ call[c].launches = 0
           /\ call[c].fetches = 0
           /\ call[c].ctx = "none"
           /\ call[c].tool = "traverse_resource" =>
                 call[c].responses = <<Resp(TextNoSession, TRUE)>>
           /\ call[c].tool = "check_auth" =>
                 call[c].responses = <<Resp(TextAuthMissing, FALSE)>>

C2_Witness ==
    \E c \in Calls :
        /\ Returned(c)
        /\ call[c].tool = "traverse_resource"
        /\ call[c].url = UrlGemini
        /\ call[c].sawSession = "no"

\* the error messages of the model that contain "Session expired", "Sign in"
\* or "login" (case-sensitive), found by reading them
AuthWallMessages == {MsgSignIn, MsgExpired, MsgLoginPath}

\* C3: a fetch failure whose message contains an auth-wall phrase is answered
\* with the re-authentication instruction naming the attempted URL, every
\* other failure with the generic "Error: <message>"; both are error
\* responses, and the fetch function was entered exactly once.
C3_FailureClassified ==
    \A c \in Calls :
        Returned(c) /\ call[c].thrown =>
           /\ Len(call[c].responses) = 1
           /\ TheResponse(c).isError
           /\ call[c].fetches = 1
           /\ call[c].launches <= 1
           /\ call[c].err \in AuthWallMessages =>
                 /\ Head(TheResponse(c).text) =
                       "Session Expired or Auth Required. The AI hit a login wall at: "
                 /\ Includes(Tail(TheResponse(c).text), call[c].url)
           /\ call[c].err \notin AuthWallMessages =>
                 TheResponse(c).text = <<"Error: ">> \o call[c].err

C3_Witness ==
    \E c \in Calls :
        /\ Returned(c)
        /\ call[c].thrown
        /\ call[c].err = MsgLoginPath
        /\ call[c].failedAt = "f_goto"

\* the extractors whose empty branch is "return await extractGeneric(page)"
GenericFallbackExtractors ==
    {"extractChatGPT", "extractSlack", "extractDiscord", "extractRaindrop",
     "extractGoogleDoc"}

\* the extractors whose empty branch is an inline page.evaluate
InlineFallbackExtractors ==
    {"extractGeminiChat", "extractGrok", "extractNotebookLM"}

NothingExtracted ==
    /\ lib.fn = "extract"
    /\ lib.name # "extractGeneric"
    /\ Fragments(lib.name, lib.page) = <<>>

\* C4: every specific extractor that reads zero fragments returns
\* what extractGeneric returns for the same page.
C4_AsStated ==
    NothingExtracted => lib.out = extractGeneric(lib.page)

\* What the extractors do with zero fragments: the ChatGPT, Slack, Discord,
\* Raindrop and Google Docs extractors return what extractGeneric returns for
\* the page; the Gemini and Grok extractors return the unstripped text of the
\* first <main> (else of <body>), and the NotebookLM extractor the text of a
\* clone of the first <main> (else <body>) without nav, header, button and
\* role=navigation elements.
FallbackByExtractor ==
    NothingExtracted =>
       /\ lib.name \in GenericFallbackExtractors =>
             lib.out = extractGeneric(lib.page)
       /\ lib.name \in {"extractGeminiChat", "extractGrok"} =>
             lib.out = InnerText(lib.page,
                                 QueryFirst(lib.page, 0, Sel({"main"}, {})), {})
       /\ lib.name = "extractNotebookLM" =>
             LET main == QueryFirst(lib.page, 0, Sel({"main"}, {}))
             IN  lib.out = DetachedText(lib.page, main,
                               RemovedWithin(lib.page, main,
                                   Sel({"nav", "header", "button"},
                                       {"role=navigation"})))

\* the ChatGPT extractor finds no turn on a page whose <main> holds page chrome
ChatGPTFallsBackToGeneric ==
    /\ NothingExtracted
    /\ lib.name = "extractChatGPT"
    /\ lib.page = PageChrome
    /\ lib.out = <<"x", "B">>

\* the URLs of the model that match no pattern, found by reading them
UnmatchedUrls ==
    {UrlExample, UrlHttpGemini, UrlGeminiNoSlash, UrlNotebookBare,
     UrlChatGPTRoot, UrlEmbedded}

\* a successful traversal of an unmatched URL without raw mode
UnknownServiceSuccess(c) ==
    /\ Returned(c)
    /\ ~call[c].thrown
    /\ call[c].tool = "traverse_resource"
    /\ call[c].url \in UnmatchedUrls
    /\ call[c].raw # "true"
    /\ call[c].sawSession = "yes"

\* C5 as stated: for an unmatched URL, raw=false and a session, the service
\* is unknown, extractGeneric is the extraction that runs, and the heading
\* carries no service label.
C5_AsStated ==
    \A c \in Calls :
        UnknownServiceSuccess(c) =>
           /\ call[c].service = NULL
           /\ call[c].content = extractGeneric(call[c].page)
           /\ FirstLine(TheResponse(c).text) = <<"# ">> \o call[c].title

\* C5 amended: for an unmatched URL, raw=false and a session, the service is
\* unknown, the call is routed to fetchAuthenticated whose raw read (the
\* whole body text after removing script, style and noscript) is the
\* extraction that runs, extractGeneric is not called, and the heading
\* carries no service label.
C5_UnknownServiceRawRead ==
    \A c \in Calls :
        UnknownServiceSuccess(c) =>
           /\ call[c].service = NULL
           /\ call[c].fn = "fetchAuthenticated"
           /\ call[c].ran = "raw"
           /\ call[c].content =
                 InnerText(call[c].page, 0,
                     RemovedBy(call[c].page, Sel(HiddenTags, {})))
           /\ TheResponse(c) =
                 Resp(<<"# ">> \o call[c].title
                      \o <<"\n", "\n", "**Source:** ">> \o call[c].url
                      \o <<"\n", "\n", "---", "\n", "\n">> \o call[c].content,
                      FALSE)

C5_Witness ==
    \E c \in Calls :
        /\ UnknownServiceSuccess(c)
        /\ call[c].url = UrlExample
        /\ call[c].raw = "false"
        /\ call[c].page = PageChrome
        /\ call[c].content = <<"N", "H", "x", "B", "F">>

\* the call is inside or past the title read
TitleReached(c) ==
    \/ call[c].ran # NULL
    \/ call[c].pc = "f_title"
    \/ call[c].failedAt = "f_title"

\* C6 as stated: barrier handling runs only on the specific-extractor path;
\* a traversal routed to the raw fetch performs no barrier detection and no
\* click.
C6_AsStated ==
    \A c \in Calls :
        call[c].fn = "fetchAuthenticated" =>
            ~call[c].detected /\ call[c].clicks = 0

\* C6 amended: barrier handling (app-redirect click, consent-wall click) runs
\* on both paths: in the raw fetch as in the specific-extractor fetch the
\* page is searched for the obstruction phrases after navigation and before
\* the title read and the extraction, and no click happens without it.
C6_BarrierOnBothPaths ==
    \A c \in Calls :
        /\ TitleReached(c) => call[c].detected
        /\ call[c].clicks > 0 \/ call[c].barrierFailed => call[c].detected
        /\ call[c].detected => call[c].pc \notin {"f_launch", "f_page", "f_goto",
                                                  "f_settle", "f_content"}

\* a raw-mode traversal that clicked a consent button and returned its text
C6_Witness ==
    \E c \in Calls :
        /\ Returned(c)
        /\ ~call[c].thrown
        /\ call[c].raw = "true"
        /\ call[c].fn = "fetchAuthenticated"
        /\ call[c].detected
        /\ call[c].clicks = 1
        /\ call[c].ran = "raw"

BarrierSteps == {"f_content", "f_slack", "f_consent"}

\* C7: no failure of barrier handling, the read of the page for
\* the obstruction phrases included, is propagated; the fetch is not aborted.
C7_AsStated ==
    \A c \in Calls :
        call[c].thrown => call[c].failedAt \notin BarrierSteps

\* What the fetch functions do: a failure while finding a control, clicking
\* it, waiting for the page to settle or walking the frames is caught and the
\* traversal goes on to the title read; a failure of the page.content() read
\* that precedes the two blocks is propagated, and the fetch ends after
\* closing the context.
BarrierFailureSwallowed ==
    \A c \in Calls :
        /\ call[c].thrown => call[c].failedAt \notin {"f_slack", "f_consent"}
        /\ call[c].barrierFailed /\ call[c].pc # "f_consent" => TitleReached(c)
        /\ call[c].failedAt = "f_content" =>
              /\ call[c].pc \in {"f_finally", "h_catch", "done"}
              /\ ~TitleReached(c)
              /\ call[c].pc # "f_finally" => call[c].closes = 1

\* a click on the redirect link failed and the fetch still returned a document
ClickFailedDocumentReturned ==
    \E c \in Calls :
        /\ Returned(c)
        /\ ~call[c].thrown
        /\ call[c].barrierFailed
        /\ call[c].pageContent \cap SlackSigs # {}
        /\ ~TheResponse(c).isError

\* the URL starts with the text of the service's pattern
StartsWithPattern(service, url) ==
    /\ Len(url) >= Len(SERVICE_PATTERNS[service])
    /\ SubSeq(url, 1, Len(SERVICE_PATTERNS[service])) = SERVICE_PATTERNS[service]

DeclaredBefore(t, s) ==
    \E i, j \in 1..Len(ServiceOrder) :
        i < j /\ ServiceOrder[i] = t /\ ServiceOrder[j] = s

\* C8: detectService returns S for every URL that matches S's pattern, null
\* for a URL that matches none, and never a service declared after another
\* one whose pattern the URL matches.
C8_DetectByPattern ==
    lib.fn = "detectService" =>
       /\ \A s \in Services : StartsWithPattern(s, lib.url) => lib.name = s
       /\ (\A s \in Services : ~StartsWithPattern(s, lib.url)) => lib.name = NULL
       /\ \A s, t \in Services :
             lib.name = s /\ DeclaredBefore(t, s) => ~StartsWithPattern(t, lib.url)

\* the Gemini URL is detected as gemini
C8_Witness ==
    /\ lib.fn = "detectService"
    /\ lib.url = UrlGemini
    /\ lib.name = "gemini"

\* the extractor the switch of getExtractor names for each service
OwnExtractor ==
    [gemini     |-> "extractGeminiChat",
     googleDocs |-> "extractGoogleDoc",
     notebookLM |-> "extractNotebookLM",
     chatgpt    |-> "extractChatGPT",
     grok       |-> "extractGrok",
     discord    |-> "extractDiscord",
     slack      |-> "extractSlack",
     raindrop   |-> "extractRaindrop"]

\* C9: getExtractor returns an extractor for every URL: the service's own
\* extractor for a URL of one of the eight services, the generic extractor
\* for a URL of no service.
C9_GetExtractorTotal ==
    lib.fn = "getExtractor" =>
       /\ lib.name \in Extractors
       /\ \A s \in Services :
             StartsWithPattern(s, lib.url) => lib.name = OwnExtractor[s]
       /\ (\A s \in Services : ~StartsWithPattern(s, lib.url)) =>
             lib.name = "extractGeneric"

C9_Witness ==
    /\ lib.fn = "getExtractor"
    /\ lib.url = UrlDiscord
    /\ lib.name = "extractDiscord"

\* the service each service URL of the model belongs to, found by reading them
ServiceOfUrl(url) ==
    CASE url = UrlGemini   -> "gemini"
      [] url = UrlDocs     -> "googleDocs"
      [] url = UrlNotebook -> "notebookLM"
      [] url = UrlChatGPT  -> "chatgpt"
      [] url = UrlGrok     -> "grok"
      [] url = UrlDiscord  -> "discord"
      [] url = UrlSlack    -> "slack"
      [] url = UrlRaindrop -> "raindrop"

\* a successful traversal of a service URL without raw mode
ServiceSuccess(c) ==
    /\ Returned(c)
    /\ ~call[c].thrown
    /\ call[c].tool = "traverse_resource"
    /\ call[c].url \in ServiceUrls
    /\ call[c].raw # "true"
    /\ call[c].sawSession = "yes"

\* C10: with a session, raw=false and a URL of service S, the extractor
\* registered for S is the one that runs, and the document returned on
\* success is the heading "# <title> (S)", a blank line, the source line with
\* the URL, a blank line, the separator, a blank line and the content the
\* extractor returned.
C10_ServiceDocument ==
    \A c \in Calls :
        ServiceSuccess(c) =>
           LET s == ServiceOfUrl(call[c].url)
           IN  /\ call[c].service = s
               /\ call[c].fn = "fetchWithExtractor"
               /\ call[c].ran = OwnExtractor[s]
               /\ call[c].content = ExtractorResult(OwnExtractor[s], call[c].page)
               /\ TheResponse(c) =
                     Resp(<<"# ">> \o call[c].title \o <<" (", s, ")">>
                          \o <<"\n", "\n", "**Source:** ">> \o call[c].url
                          \o <<"\n", "\n", "---", "\n", "\n">> \o call[c].content,
                          FALSE)

C10_Witness ==
    \E c \in Calls :
        /\ ServiceSuccess(c)
        /\ call[c].url = UrlGemini
        /\ call[c].raw = "false"
        /\ call[c].page = PageGemini
        /\ FirstLine(TheResponse(c).text) = <<"# ", "Gemini", " (", "gemini", ")">>

\* C11: launchForAuth always returns to its caller; when the 300 seconds run
\* out before the browser is closed, the call still returns, it does not fail.
C11_AsStated ==
    auth.timedOut => auth.launchForAuth # "rejected"

\* the session check of call c has just been made
SessionChecked(c) == call[c].pc = "f_check" /\ call'[c].pc # "f_check"

\* C12: the session check of a fetch function fails with the no-session
\* error when the profile directory does not exist, and the call then
\* launches no browser; when the directory exists the check succeeds; and no
\* step of a call turns hasAuthSession from true to false.
C12_SessionOpen ==
    /\ [](\A c \in Calls :
            call[c].failedAt = "f_check" =>
               /\ call[c].err = MsgNoSession
               /\ call[c].launches = 0
               /\ call[c].ctx = "none")
    /\ [][\A c \in Calls :
            /\ SessionChecked(c) /\ ~profileExists =>
                  /\ call'[c].thrown
                  /\ call'[c].failedAt = "f_check"
                  /\ call'[c].pc = "h_catch"
            /\ SessionChecked(c) /\ profileExists =>
                  /\ ~call'[c].thrown
                  /\ call'[c].pc = "f_launch"
            /\ call'[c] # call[c] /\ profileExists => profileExists']_vars

\* a call whose session check failed has answered without a launch
C12_Witness ==
    \E c \in Calls :
        /\ Returned(c)
        /\ call[c].failedAt = "f_check"
        /\ call[c].fetches = 1
        /\ call[c].launches = 0
        /\ TheResponse(c).isError

\* call c has done the named step of the pipeline
Did(c, step) == \E k \in 1..Len(call[c].steps) : call[c].steps[k] = step

\* C13: a selector-wait timeout inside an extractor is caught and ignored:
\* no failure ever comes from the wait, and unless a later browser call
\* fails, the extractor reads content and the call returns a document;
\* a failure of page.goto propagates: the call ends in an error response and
\* neither the title read nor any extraction runs after it.
C13_WaitIgnoredGotoFatal ==
    \A c \in Calls :
        /\ call[c].failedAt # "x_wait"
        /\ call[c].selTimeout =>
              call[c].pc \in {"x_delay", "x_scroll", "x_read", "x_fallback",
                              "f_finally", "h_catch", "h_format", "done"}
        /\ call[c].selTimeout /\ ~call[c].thrown /\ FetchOver(c) =>
              Did(c, "extract")
        /\ call[c].selTimeout /\ ~call[c].thrown /\ Returned(c) =>
              ~TheResponse(c).isError
        /\ call[c].failedAt = "f_goto" =>
              /\ call[c].thrown
              /\ call[c].pc \in {"f_finally", "h_catch", "done"}
              /\ ~Did(c, "title") /\ ~Did(c, "extract")
              /\ call[c].ran = NULL /\ call[c].content = <<>>
              /\ Returned(c) => TheResponse(c).isError

\* the wait for Discord's message list timed out and the document was returned
C13_Witness ==
    \E c \in Calls :
        /\ Returned(c)
        /\ call[c].extractor = "extractDiscord"
        /\ call[c].page = PageDiscord
        /\ call[c].selTimeout
        /\ ~call[c].thrown
        /\ call[c].content # <<>>
        /\ ~TheResponse(c).isError

\* C14: a failure during a scroll-to-top iteration of the ChatGPT, Grok or
\* Slack extractor is absorbed at that step: it never ends the extractor and
\* never reaches the caller of traverse_resource as an error.
C14_AsStated ==
    \A c \in Calls :
        /\ call[c].failedAt # "x_scroll"
        /\ Returned(c) /\ TheResponse(c).isError => call[c].failedAt # "x_scroll"

\* the extractors of the chat-style services
ChatExtractors ==
    {"extractGeminiChat", "extractChatGPT", "extractGrok",
     "extractDiscord", "extractSlack"}

\* the extractor of call c has read its fragments
FragmentsRead(c) ==
    /\ call[c].fn = "fetchWithExtractor"
    /\ call[c].pc = "x_fallback" \/ Did(c, "extract")

\* C15: every chat-style extractor (Gemini, ChatGPT, Grok, Discord, Slack)
\* has done scroll-to-top steps by the time it reads its message fragments.
C15_AsStated ==
    \A c \in Calls :
        call[c].extractor \in ChatExtractors /\ FragmentsRead(c) =>
            call[c].i > 0

\* the place of a step in an order of steps
PlaceIn(order, step) == CHOOSE m \in 1..Len(order) : order[m] = step

\* the steps of seq occur in the order of `order`, none of them twice: each
\* step comes later in `order` than the step before it
InOrder(seq, order) ==
    \A j \in 1..(Len(seq) - 1) :
        PlaceIn(order, seq[j]) < PlaceIn(order, seq[j + 1])

\* a traversal whose fetch function ran to its end without a failure
FetchSucceeded(c) ==
    /\ call[c].fetches = 1
    /\ ~call[c].thrown
    /\ call[c].pc \in {"h_format", "done"}

\* C16: in every traversal the pipeline steps happen in the order acquire
\* context, navigate, settle delay, barrier handling, run the extractor (or
\* the raw read), capture the title, release the context, return; the title
\* is captured after extraction has run.
C16_AsStated ==
    \A c \in Calls :
        /\ InOrder(call[c].steps,
                   <<"acquire", "navigate", "settle", "barrier",
                     "extract", "title", "release", "return">>)
        /\ Did(c, "title") => Did(c, "extract")

\* C16 amended: the order is acquire context, navigate, settle delay,
\* barrier handling, capture the title, run the extractor (or the raw read),
\* release the context, return: the title is captured before extraction
\* runs, and the context is released only after both.  A traversal that
\* fails skips the steps between the failure and the release.
C16_PipelineOrder ==
    \A c \in Calls :
        /\ InOrder(call[c].steps,
                   <<"acquire", "navigate", "settle", "barrier",
                     "title", "extract", "release", "return">>)
        /\ Did(c, "extract") => Did(c, "title")
        /\ Did(c, "release") /\ ~call[c].thrown =>
              Did(c, "title") /\ Did(c, "extract")
        /\ FetchSucceeded(c) /\ call[c].pc = "done" =>
              call[c].steps = <<"acquire", "navigate", "settle", "barrier",
                                "title", "extract", "release", "return">>

\* a ChatGPT traversal that went through every step and returned its document
C16_Witness ==
    \E c \in Calls :
        /\ FetchSucceeded(c)
        /\ Returned(c)
        /\ call[c].extractor = "extractChatGPT"
        /\ call[c].steps = <<"acquire", "navigate", "settle", "barrier",
                             "title", "extract", "release", "return">>

\* the calls that hold an open context
OpenContexts == {c \in Calls : call[c].ctx = "open"}

\* C17: a call can start whatever the other calls are doing; a call holds an
\* open context only if it launched it itself; a launch changes nothing of
\* the other calls, and the context of a call stops being open only by that
\* call's own finally block, which changes nothing of the other calls.
C17_CallsIndependent ==
    /\ [](\A c \in Calls :
            /\ call[c].pc = "idle" =>
                  ENABLED HandlerStart(c, "traverse_resource", UrlExample, "false")
            /\ c \in OpenContexts =>
                  call[c].launches = 1 /\ call[c].closes = 0)
    /\ [][\A c \in Calls :
            /\ call'[c].launches # call[c].launches /\ call'[c].pc # "idle" =>
                  /\ call[c].pc = "f_launch"
                  /\ \A d \in Calls \ {c} : call'[d] = call[d]
            /\ c \in OpenContexts /\ call'[c].ctx # "open" =>
                  /\ call[c].pc = "f_finally"
                  /\ call'[c].closes = call[c].closes + 1
                  /\ \A d \in Calls \ {c} : call'[d] = call[d]]_vars

\* two calls hold an open context on the profile directory at the same time
C17_Witness ==
    \E c, d \in Calls :
        /\ c # d
        /\ {c, d} \subseteq OpenContexts
        /\ call[c].pc = "f_goto"
        /\ call[d].pc = "x_read"

\* the number of scroll-to-top steps each extractor is to make
ScrollsOf(name) ==
    CASE name = "extractChatGPT" -> 10
      [] name = "extractGrok"    -> 15
      [] name = "extractSlack"   -> 15
      [] OTHER                   -> 0

\* what is left of the extractor of a call: a number that every step lowers
ExtractorWork(rec) ==
    CASE rec.pc = "x_wait"     -> 20
      [] rec.pc = "x_delay"    -> 19
      [] rec.pc = "x_scroll"   -> 3 + ScrollsOf(rec.extractor) - rec.i
      [] rec.pc = "x_read"     -> 2
      [] rec.pc = "x_fallback" -> 1
      [] OTHER                 -> 0

\* C18: the history walk makes a fixed number of steps whatever the page
\* holds: the fragments are read after exactly 10 scroll steps in the ChatGPT
\* extractor, exactly 15 in the Grok and the Slack extractor (and none in the
\* others); and every step of an extractor lowers the work left, so an
\* extractor whose browser calls all return comes to its end.
C18_BoundedWalk ==
    /\ [](\A c \in Calls :
            /\ call[c].i <= ScrollsOf(call[c].extractor)
            /\ FragmentsRead(c) \/ call[c].pc = "x_read" =>
                  call[c].i = ScrollsOf(call[c].extractor)
            /\ call[c].fn = "fetchAuthenticated" => call[c].i = 0)
    /\ [][\A c \in Calls :
            ExtractorWork(call[c]) > 0 /\ call'[c] # call[c] =>
               /\ ExtractorWork(call'[c]) < ExtractorWork(call[c])
               /\ ExtractorWork(call'[c]) >= 0]_vars

\* a Grok traversal returned its document after fifteen scroll steps
C18_Witness ==
    \E c \in Calls :
        /\ Returned(c)
        /\ ~call[c].thrown
        /\ call[c].extractor = "extractGrok"
        /\ call[c].i = 15
        /\ Did(c, "extract")

\* the first 50 characters of a text
First50(text) == SubSeq(text, 1, IF Len(text) < 50 THEN Len(text) ELSE 50)

\* candidate k of the trace was kept
KeptAt(trace, k) == ~trace[k].dropped

\* the first 50 characters of candidate k occur in a fragment kept before it
PrefixSeenBefore(trace, k) ==
    \E j \in 1..(k - 1) :
        KeptAt(trace, j) /\ Includes(trace[j].frag, First50(trace[k].text))

\* candidate k repeats an earlier candidate: same first 50 characters
RepeatsEarlier(trace, k) ==
    \E j \in 1..(k - 1) : First50(trace[j].text) = First50(trace[k].text)

\* the fragments of the kept candidates, in order
RECURSIVE KeptFrags(_)
KeptFrags(trace) ==
    IF trace = <<>> THEN <<>>
    ELSE (IF Head(trace).dropped THEN <<>> ELSE << Head(trace).frag >>)
         \o KeptFrags(Tail(trace))

\* a candidate is dropped exactly when its first 50 characters occur in an
\* already-kept fragment; so no kept fragment's prefix occurs in an earlier one
DroppedExactlyWhenSeen ==
    /\ lib.kept = KeptFrags(lib.trace)
    /\ \A k \in 1..Len(lib.trace) :
          /\ lib.trace[k].dropped <=> PrefixSeenBefore(lib.trace, k)
          /\ lib.trace[k].before = KeptFrags(SubSeq(lib.trace, 1, k - 1))
    /\ \A j, k \in 1..Len(lib.trace) :
          j < k /\ KeptAt(lib.trace, j) /\ KeptAt(lib.trace, k) =>
             ~Includes(lib.trace[j].frag, First50(lib.trace[k].text))

\* C19: in the Slack and Grok extractors a candidate is dropped exactly when
\* the first 50 characters of its text occur in an already-kept fragment, no
\* kept fragment's prefix occurs in an earlier kept fragment, and a candidate
\* that does not repeat an earlier one is never dropped.
C19_AsStated ==
    lib.fn = "collect" =>
       /\ DroppedExactlyWhenSeen
       /\ \A k \in 1..Len(lib.trace) :
             ~RepeatsEarlier(lib.trace, k) => ~lib.trace[k].dropped

\* C19 amended: a candidate is dropped exactly when the first 50 characters
\* of its text occur in an already-kept fragment (author label included), and
\* no kept fragment's prefix occurs in an earlier kept fragment; every repeat
\* of a kept candidate is dropped, and so is a candidate that repeats nothing
\* but whose short text occurs inside an earlier kept fragment.
C19_PrefixDedup ==
    lib.fn = "collect" =>
       /\ DroppedExactlyWhenSeen
       /\ \A j, k \in 1..Len(lib.trace) :
             /\ j < k
             /\ KeptAt(lib.trace, j)
             /\ First50(lib.trace[j].text) = First50(lib.trace[k].text)
             => lib.trace[k].dropped

\* seven Slack messages, of which the repeat, the two nested ones and the one
\* with the same first 50 characters are dropped
C19_Witness ==
    /\ lib.fn = "collect"
    /\ lib.name = "extractSlack"
    /\ lib.page = PageSlackRepeat
    /\ Len(lib.trace) = 7
    /\ Len(lib.kept) = 3
    /\ lib.trace[2].dropped /\ ~RepeatsEarlier(lib.trace, 2)
    /\ lib.trace[3].dropped /\ RepeatsEarlier(lib.trace, 3)
    /\ lib.trace[6].dropped /\ lib.trace[6].text # lib.trace[5].text

\* a successful traversal of a service URL, raw or not
ServiceUrlSuccess(c) ==
    /\ Returned(c)
    /\ ~call[c].thrown
    /\ call[c].tool = "traverse_resource"
    /\ call[c].url \in ServiceUrls
    /\ call[c].sawSession = "yes"

\* C20: the service label of the heading depends on the URL only: whatever
\* the raw flag, the heading of a traversal of a URL of service S is the
\* title followed by " (S)"; with raw=true the extractor of S is not run and
\* the content is the raw text of the whole body.
C20_LabelIgnoresRaw ==
    \A c \in Calls :
        ServiceUrlSuccess(c) =>
           /\ FirstLine(TheResponse(c).text) =
                 <<"# ">> \o call[c].title
                          \o <<" (", ServiceOfUrl(call[c].url), ")">>
           /\ call[c].raw = "true" =>
                 /\ call[c].fn = "fetchAuthenticated"
                 /\ call[c].extractor = NULL
                 /\ call[c].ran = "raw"
                 /\ ~call[c].selTimeout /\ call[c].i = 0 /\ ~call[c].usedFallback
                 /\ call[c].content = RawBodyText(call[c].page)

\* a raw traversal of a Slack URL: the heading says (slack), the content is
\* the body text and not the messages the Slack extractor would return
C20_Witness ==
    \E c \in Calls :
        /\ ServiceUrlSuccess(c)
        /\ call[c].raw = "true"
        /\ call[c].url = UrlSlack
        /\ call[c].page = PageSlack
        /\ FirstLine(TheResponse(c).text) = <<"# ", "Slack", " (", "slack", ")">>
        /\ call[c].content # ExtractorResult("extractSlack", PageSlack)

\* call c passed the handler's session check and failed the fetch function's
LostBetweenChecks(c) ==
    /\ call[c].tool = "traverse_resource"
    /\ call[c].sawSession = "yes"
    /\ call[c].failedAt = "f_check"

\* C21: a traverse_resource call checks the session twice, in the handler
\* and at the start of the fetch function, and the profile directory may go
\* in between: a call that reaches the launch passed both checks, and a call
\* that passed the first and failed the second launches no browser and
\* answers "Error: No authenticated session found...", flagged as an error,
\* which is neither the handler's remediation text nor the session-expired
\* instruction.
C21_LostBetweenChecks ==
    \A c \in Calls :
        /\ call[c].launches > 0 =>
              call[c].sawSession = "yes" /\ call[c].fetches = 1
        /\ LostBetweenChecks(c) =>
              /\ call[c].fetches = 1
              /\ call[c].launches = 0
              /\ call[c].ctx = "none"
              /\ call[c].err = MsgNoSession
        /\ LostBetweenChecks(c) /\ Returned(c) =>
              /\ Len(call[c].responses) = 1
              /\ TheResponse(c).isError
              /\ TheResponse(c).text = <<"Error: ">> \o MsgNoSession
              /\ TheResponse(c).text # TextNoSession
              /\ TheResponse(c).text # TextReauth(call[c].url)

\* the directory went between the two checks and the call has answered
C21_Witness ==
    \E c \in Calls :
        /\ LostBetweenChecks(c)
        /\ Returned(c)
        /\ ~profileExists
        /\ call[c].launches = 0
        /\ TheResponse(c).text = TextError(MsgNoSession)

\* launchForAuth has rejected at a step that follows the launch
FailedAfterLaunch ==
    /\ auth.launchForAuth = "rejected"
    /\ auth.failedAt \in {"a_page", "a_goto", "a_wait"}

\* C22: when the login flow fails after the headed browser was launched
\* (the navigation to the start URL fails, or the 300 seconds of the wait
\* run out), launchForAuth raises the error and leaves the context it
\* launched unclosed; the auth script prints the failure and exits with
\* status 1 without the success message; and the session marker is true
\* from the launch on: the launch sets it and no step of the script clears it.
C22_FailedLoginLeavesContext ==
    /\ [](FailedAfterLaunch =>
            /\ auth.pc \in {"a_catch", "exited"}
            /\ auth.err # <<>>
            /\ auth.pc = "a_catch" => auth.ctx = "open" \/ auth.closedByUser
            /\ auth.pc = "a_catch" /\ auth.timedOut =>
                  auth.ctx = "open" /\ auth.err = MsgWaitTimeout
            /\ "Authentication complete" \notin auth.printed
            /\ "Success!" \notin auth.printed
            /\ auth.pc = "exited" =>
                  auth.exit = "1" /\ "setup failed" \in auth.printed)
    /\ [][/\ auth.pc = "a_launch" /\ auth'.ctx = "open" => profileExists'
          /\ auth' # auth /\ profileExists => profileExists']_vars

\* the wait timed out with the browser still open, and the script is about
\* to report the failure
C22_Witness ==
    /\ FailedAfterLaunch
    /\ auth.failedAt = "a_wait"
    /\ auth.timedOut
    /\ auth.pc = "a_catch"
    /\ auth.ctx = "open"
    /\ profileExists

\* what is left of a handler invocation: a number that every step lowers
HandlerWork(rec) ==
    CASE rec.pc = "f_check"   -> 33
      [] rec.pc = "f_launch"  -> 32
      [] rec.pc = "f_page"    -> 31
      [] rec.pc = "f_goto"    -> 30
      [] rec.pc = "f_settle"  -> 29
      [] rec.pc = "f_content" -> 28
      [] rec.pc = "f_slack"   -> 27
      [] rec.pc = "f_consent" -> 26
      [] rec.pc = "f_title"   -> 25
      [] rec.pc = "f_raw"     -> 24
      [] rec.pc \in {"x_wait", "x_delay", "x_scroll", "x_read", "x_fallback"}
                              -> 3 + ExtractorWork(rec)
      [] rec.pc = "f_finally" -> 3
      [] rec.pc \in {"h_catch", "h_format"} -> 2
      [] rec.pc = "done"      -> 1
      [] OTHER                -> 0

\* the handler's own step after the fetch function is over can be taken
CanAnswer(c) ==
    ENABLED (HandlerCatch(c) \/ HandlerFormat(c) \/ Return(c))

\* C23: the handler never throws and returns exactly one response.  An
\* invocation ends only by returning, with one response; once the fetch is
\* over the handler can always answer, and every step of an invocation
\* lowers the work left.  A traverse_resource call with a
\* missing or empty url answers "Error: URL is required" before any session
\* check or launch; an unknown tool name answers "Unknown tool: <name>" as
\* an error; a fetch that failed is answered with an error-flagged response;
\* check_auth launches no browser and leaves the session marker as it is.
C23_AlwaysOneResponse ==
    /\ [](\A c \in Calls :
            /\ Len(call[c].responses) = IF Returned(c) THEN 1 ELSE 0
            /\ FetchOver(c) => CanAnswer(c)
            /\ Returned(c) /\ call[c].tool = "traverse_resource"
                           /\ call[c].url = <<>> =>
                  /\ TheResponse(c) = Resp(<<"Error: URL is required">>, TRUE)
                  /\ call[c].sawSession = "unchecked"
                  /\ call[c].fetches = 0
                  /\ call[c].launches = 0
            /\ Returned(c) /\ call[c].tool
                               \notin {"traverse_resource", "check_auth"} =>
                  /\ TheResponse(c) =
                        Resp(<<"Unknown tool: ", call[c].tool>>, TRUE)
                  /\ call[c].launches = 0
            /\ Returned(c) /\ call[c].thrown => TheResponse(c).isError
            /\ call[c].tool = "check_auth" =>
                  /\ call[c].fetches = 0
                  /\ call[c].launches = 0
                  /\ call[c].ctx = "none")
    /\ [][\A c \in Calls :
            /\ call[c].pc # "idle" /\ call'[c].pc = "idle" =>
                  Returned(c) /\ Len(call[c].responses) = 1
            /\ call[c].pc # "idle" /\ call'[c] # call[c] =>
                  HandlerWork(call'[c]) < HandlerWork(call[c])
            /\ call[c].pc = "idle" /\ call'[c].tool = "check_auth" =>
                  /\ Returned(c)'
                  /\ profileExists' = profileExists
                  /\ TheResponse(c)' =
                        Resp(IF profileExists THEN TextAuthFound
                                              ELSE TextAuthMissing, FALSE)]_vars

\* a fetch failed at the navigation, the context was closed, and the call
\* answered with the error form
C23_Witness ==
    \E c \in Calls :
        /\ Returned(c)
        /\ call[c].thrown
        /\ call[c].failedAt = "f_goto"
        /\ call[c].closes = 1
        /\ ~IsAuthWall(call[c].err)
        /\ TheResponse(c) = Resp(TextError(call[c].err), TRUE)

=============================================================================
